---- MODULE Spec2Model ----
(***************************************************************************)
(* Drive image manager of VICE: src/vice/src/drive/driveimage.c.           *)
(*                                                                         *)
(* The state is the part of diskunit_context[] / drive_t that              *)
(* drive_image_attach and drive_image_detach read and write, the unit      *)
(* clocks, and the back-references an image descriptor keeps to the        *)
(* drive-owned buffers.  Image formats and drive models are the            *)
(* enumerators of diskimage.h / drive.h, written as strings.               *)
(***************************************************************************)
EXTENDS Integers, Sequences, FiniteSets, TLC

VARIABLES
    unit_type,     \* diskunit_context[dnr]->type
    diskunit_clk,  \* diskunit_clk[dnr]
    drives,        \* diskunit_context[dnr]->drives[drv]: the drive_t fields
    image_refs,    \* per image descriptor: image->gcr, image->p64
    last,          \* the last call made: its arguments, result and effects
    target,        \* the drive slot <<dnr, drv>> the callers of this run use
    vic,           \* the members of vic the snapshot module serializes
    mem_ram,       \* mem_ram + 0x9400: the colour RAM
    maincpu_clk,   \* maincpu_clk
    module,        \* the VIC-I module of the snapshot container
    snap_call,     \* the last snapshot call made: its result and its calls
    io_fault,      \* the write or read at which the container of this run
                   \* fails when it fails
    resource,      \* the string resource the widget is bound to
    widget,        \* the entry or browser widget and its properties
    ui_call,       \* the last widget call or event: its result and its calls
    vsid_state,    \* the vsid_state_t the VSID control buttons work on
    Speed,         \* the integer resource "Speed"
    vsid_call      \* the last button pressed: what it found and what it called

drivevars == <<unit_type, diskunit_clk, drives, image_refs, last, target>>
snapvars == <<vic, mem_ram, maincpu_clk, module, snap_call, io_fault>>
widgetvars == <<resource, widget, ui_call>>
vsidvars == <<vsid_state, Speed, vsid_call>>
vars == <<drivevars, snapvars, widgetvars, vsidvars>>

(***************************************************************************)
(* Sizes.  NUM_DISK_UNITS and MAX_GCR_TRACKS are set in drive.h and        *)
(* diskconstants.h; the model runs them at small values.                   *)
(***************************************************************************)
NUM_DISK_UNITS == 2   \* units 8 .. 8+NUM_DISK_UNITS-1
MAX_GCR_TRACKS == 2   \* track buffers per drive
MaxClk == 1           \* the unit clocks run 0..MaxClk

\* Drives per unit (diskunit_context[dnr]->drives[]).
NUM_DRIVES == 2

(***************************************************************************)
(* Enumerations.                                                           *)
(***************************************************************************)
\* The build option of driveimage.c:84,198,252; off in the default build.
HAVE_X64_IMAGE == FALSE

\* DISK_IMAGE_TYPE_*: the formats named in driveimage.c, X64, and TAP as a
\* format no switch of driveimage.c names.
Formats ==
    {"D64", "G64", "P64", "G71", "D67", "D71", "D81", "D80", "D82", "D90",
     "D1M", "D2M", "D4M", "DHD", "X64", "TAP"}

\* DRIVE_TYPE_*: the models named in driveimage.c and DRIVE_TYPE_NONE.
DriveTypes ==
    {"NONE", "1540", "1541", "1541II", "1551", "1570", "1571", "1571CR",
     "1581", "2000", "4000", "2031", "2040", "3040", "4040", "1001",
     "8050", "8250", "9000", "CMDHD"}

NULL == 0
DRIVE_EXTEND_NEVER == "DRIVE_EXTEND_NEVER"
DRIVE_EXTEND_ASK == "DRIVE_EXTEND_ASK"

Dnrs == 0 .. NUM_DISK_UNITS - 1
Drvs == 0 .. NUM_DRIVES - 1
Tracks == 1 .. MAX_GCR_TRACKS

\* The image descriptors (disk_image_t) the callers hold.  A descriptor's
\* type and read_only flag are set by the image parser and are not written
\* by driveimage.c; a pointer to a descriptor is its index here.
ImageTable ==
    << [type |-> "D64", read_only |-> 1],
       [type |-> "P64", read_only |-> 0],
       [type |-> "G71", read_only |-> 0],
       [type |-> "D81", read_only |-> 0] >>

ImageIds == 1 .. Len(ImageTable)
image_type(image) == ImageTable[image].type
image_read_only(image) == ImageTable[image].read_only

\* The drive models the units are configured as: a 1571 (which takes the
\* GCR and P64 formats) at the even units, a 1581 at the odd ones.
UnitConfig == [dnr \in Dnrs |-> IF dnr % 2 = 0 THEN "1571" ELSE "1581"]

\* A track buffer: data is 1 when a buffer is allocated.
EmptyTrack == [data |-> 0, size |-> 0]

\* What an image file holds: its first n tracks, track t of size t.
TrackContents ==
    {[t \in Tracks |-> IF t <= n THEN [data |-> 1, size |-> t] ELSE EmptyTrack] :
        n \in 0 .. MAX_GCR_TRACKS}

\* What reading an image file can do: fail, or deliver the file's tracks.
NoRead == [ok |-> FALSE, contents |-> [t \in Tracks |-> EmptyTrack]]
ReadOutcomes == {NoRead} \cup {[ok |-> TRUE, contents |-> c] : c \in TrackContents}

NoRefs == [gcr |-> <<>>, p64 |-> <<>>]

(***************************************************************************)
(* drive_image_type_to_drive_type                                          *)
(***************************************************************************)
\* Mutant of drive_image_type_to_drive_type: D4M falls into the case of D1M
\* and D2M.
drive_image_type_to_drive_type_D4M(type) ==
    CASE type \in {"G64", "P64", "D64"} -> "1541II"
      [] type \in {"G71", "D71"} -> "1571"
      [] type = "D81" -> "1581"
      [] type \in {"D1M", "D2M", "D4M"} -> "2000"
      [] type = "D67" -> "2040"
      [] type = "D80" -> "8050"
      [] type = "D82" -> "8250"
      [] type = "D90" -> "9000"
      [] type = "DHD" -> "CMDHD"
      [] OTHER -> "NONE"

\* driveimage.c:45-74
drive_image_type_to_drive_type(type) ==
    CASE type \in {"G64", "P64", "D64"} -> "1541II"
      [] type \in {"G71", "D71"} -> "1571"
      [] type = "D81" -> "1581"
      [] type \in {"D1M", "D2M"} -> "2000"
      [] type = "D4M" -> "4000"
      [] type = "D67" -> "2040"
      [] type = "D80" -> "8050"
      [] type = "D82" -> "8250"
      [] type = "D90" -> "9000"
      [] type = "DHD" -> "CMDHD"
      [] OTHER -> "NONE"

(***************************************************************************)
(* drive_check_image_format: 0 when the unit's drive model takes the       *)
(* format, -1 otherwise.  One arm per case of the switch.                  *)
(***************************************************************************)
CheckD64(utype) ==
    IF /\ utype # "1540"
       /\ utype # "1541"
       /\ utype # "1541II"
       /\ utype # "1551"
       /\ utype # "1570"
       /\ utype # "1571"
       /\ utype # "1571CR"
       /\ utype # "2031"
       /\ utype # "2040"
       /\ utype # "3040"
       /\ utype # "4040"
    THEN -1 ELSE 0

CheckG71(utype) ==
    IF utype # "1571" /\ utype # "1571CR" THEN -1 ELSE 0

CheckD67(utype) ==
    IF /\ utype # "1540"
       /\ utype # "1541"
       /\ utype # "1541II"
       /\ utype # "1551"
       /\ utype # "1570"
       /\ utype # "1571"
       /\ utype # "1571CR"
       /\ utype # "2031"
       /\ utype # "2040"
       /\ utype # "3040"
       /\ utype # "4040"
    THEN -1 ELSE 0

CheckD71(utype) ==
    IF utype # "1571" /\ utype # "1571CR" THEN -1 ELSE 0

CheckD81(utype) ==
    IF utype # "1581" /\ utype # "2000" /\ utype # "4000" THEN -1 ELSE 0

\* Mutant of CheckD80: the 1001 is forgotten.
CheckD80_No1001(utype) ==
    IF utype # "8050" /\ utype # "8250" THEN -1 ELSE 0

CheckD80(utype) ==
    IF utype # "1001" /\ utype # "8050" /\ utype # "8250" THEN -1 ELSE 0

CheckD90(utype) ==
    IF utype # "9000" THEN -1 ELSE 0

\* Mutant of CheckD1M: the FD-4000 is forgotten.
CheckD1M_No4000(utype) ==
    IF utype # "2000" THEN -1 ELSE 0

CheckD1M(utype) ==
    IF utype # "2000" /\ utype # "4000" THEN -1 ELSE 0

CheckDHD(utype) ==
    IF utype # "CMDHD" THEN -1 ELSE 0

CheckFormatOfType(format, utype) ==
    CASE format \in {"D64", "G64", "P64"} -> CheckD64(utype)
      [] format = "X64" /\ HAVE_X64_IMAGE -> CheckD64(utype)
      [] format = "G71" -> CheckG71(utype)
      [] format = "D67" -> CheckD67(utype)
      [] format = "D71" -> CheckD71(utype)
      [] format = "D81" -> CheckD81(utype)
      [] format \in {"D80", "D82"} -> CheckD80(utype)
      [] format = "D90" -> CheckD90(utype)
      [] format \in {"D1M", "D2M", "D4M"} -> CheckD1M(utype)
      [] format = "DHD" -> CheckDHD(utype)
      [] OTHER -> -1

drive_check_image_format(format, dnr) ==
    CheckFormatOfType(format, unit_type[dnr])

(***************************************************************************)
(* External collaborators of driveimage.c.                                 *)
(***************************************************************************)
\* disk_image_read_image(image): fills the buffers image->gcr refers to
\* (the drive's own, bound at driveimage.c:209) from the image file.  On
\* failure the buffers are left as they were.
disk_image_read_image(gcr, read) ==
    IF read.ok THEN [ret |-> 0, gcr |-> read.contents]
    ELSE [ret |-> -1, gcr |-> gcr]

\* disk_image_write_p64_image(image): writes the flux data back to storage;
\* it changes no drive field.
disk_image_write_p64_image(write_ok) ==
    IF write_ok THEN 0 ELSE -1

(***************************************************************************)
(* The unit range test both entry points start with.                       *)
(***************************************************************************)
\* Mutant of UnitOutOfRange: unit 8 is taken for out of range.
UnitOutOfRange_OffByOne(unit) ==
    unit <= 8 \/ unit >= 8 + NUM_DISK_UNITS

\* driveimage.c:174, 236
UnitOutOfRange(unit) ==
    unit < 8 \/ unit >= 8 + NUM_DISK_UNITS

(***************************************************************************)
(* drive_image_attach                                                      *)
(***************************************************************************)
\* Mutant of AttachStamp: attach_detach_clk is stamped whatever detach_clk
\* is.
AttachStamp_Always(drive, image, clk) ==
    [drive EXCEPT
        !.read_only = image_read_only(image),
        !.attach_clk = clk,
        !.attach_detach_clk = clk,
        !.ask_extend_disk_image = DRIVE_EXTEND_ASK]

\* driveimage.c:185-190
AttachStamp(drive, image, clk) ==
    [drive EXCEPT
        !.read_only = image_read_only(image),
        !.attach_clk = clk,
        !.attach_detach_clk = IF drive.detach_clk > 0 THEN clk ELSE @,
        !.ask_extend_disk_image = DRIVE_EXTEND_ASK]

\* driveimage.c:192-206: the formats the attach routine wires up.
AttachWirable(type) ==
    \/ type \in {"D64", "D67", "D71", "G64", "G71", "P64"}
    \/ (HAVE_X64_IMAGE /\ type = "X64")

\* driveimage.c:216-224, run with drive->image bound to the new image.
AttachLoaded(drive) ==
    LET type == image_type(drive.image)
        d1 == IF type = "P64"
              THEN [drive EXCEPT !.P64_image_loaded = 1, !.P64_dirty = 0]
              ELSE [drive EXCEPT !.GCR_image_loaded = 1]
    IN  [d1 EXCEPT !.complicated_image_loaded =
            IF type = "P64" \/ type = "G64" \/ type = "G71" THEN 1 ELSE 0]

\* Mutant of AttachInstall: a failed read leaves the image bound.
AttachInstall_KeepImage(drive, image, read) ==
    LET rd == disk_image_read_image(drive.gcr, read)
        bound == [drive EXCEPT !.image = image, !.gcr = rd.gcr]
    IN  IF rd.ret < 0
        THEN [ret |-> -1, stage |-> "read", drive |-> bound,
              trace |-> <<"bind_image", "read_image">>]
        ELSE [ret |-> 0, stage |-> "done",
              drive |-> AttachLoaded(bound),
              trace |-> <<"bind_image", "read_image", "set_flags",
                          "set_half_track">>]

\* driveimage.c:208-226: install the image, read it, set the flags.
AttachInstall(drive, image, read) ==
    LET rd == disk_image_read_image(drive.gcr, read)
        bound == [drive EXCEPT !.image = image, !.gcr = rd.gcr]
    IN  IF rd.ret < 0
        THEN [ret |-> -1, stage |-> "read",
              drive |-> [bound EXCEPT !.image = NULL],
              trace |-> <<"bind_image", "read_image", "image_null">>]
        ELSE [ret |-> 0, stage |-> "done",
              drive |-> AttachLoaded(bound),
              trace |-> <<"bind_image", "read_image", "set_flags",
                          "set_half_track">>]

\* Mutant of AttachRejects: the result of the format check is ignored.
AttachRejects_Never(image, dnr) ==
    FALSE

\* driveimage.c:181-183: the format gate of attach.
AttachRejects(image, dnr) ==
    drive_check_image_format(image_type(image), dnr) < 0

\* Whether the call gets as far as disk_image_read_image (driveimage.c:212).
AttachReachesRead(image, unit) ==
    /\ ~UnitOutOfRange(unit)
    /\ ~AttachRejects(image, unit - 8)
    /\ AttachWirable(image_type(image))

\* The whole call.  The result carries the return value, the place the call
\* returned from, the new drive table and image back-references, and the
\* effects in the order the code performs them.
drive_image_attach(image, unit, drv, read) ==
    IF UnitOutOfRange(unit)
    THEN [ret |-> -1, stage |-> "unit", drives |-> drives,
          image_refs |-> image_refs, trace |-> <<>>]
    ELSE
    LET dnr == unit - 8
        drive == drives[dnr][drv]
    IN  IF AttachRejects(image, dnr)
        THEN [ret |-> -1, stage |-> "format", drives |-> drives,
              image_refs |-> image_refs, trace |-> <<>>]
        ELSE
        LET stamped == AttachStamp(drive, image, diskunit_clk[dnr])
        IN  IF ~AttachWirable(image_type(image))
            THEN [ret |-> -1, stage |-> "wiring",
                  drives |-> [drives EXCEPT ![dnr][drv] = stamped],
                  image_refs |-> image_refs, trace |-> <<>>]
            ELSE
            LET r == AttachInstall(stamped, image, read)
            IN  [ret |-> r.ret, stage |-> r.stage,
                 drives |-> [drives EXCEPT ![dnr][drv] = r.drive],
                 image_refs |-> [image_refs EXCEPT ![image] =
                                    [gcr |-> <<dnr, drv>>, p64 |-> <<dnr, drv>>]],
                 trace |-> r.trace]

(***************************************************************************)
(* drive_image_detach                                                      *)
(***************************************************************************)
\* Mutant of DetachKnown: the G71 case is missing from the switch.
DetachKnown_NoG71(type) ==
    \/ type \in {"D64", "D67", "D71", "G64", "P64"}
    \/ (HAVE_X64_IMAGE /\ type = "X64")

\* driveimage.c:245-259: the formats the detach routine accepts.
DetachKnown(type) ==
    \/ type \in {"D64", "D67", "D71", "G64", "G71", "P64"}
    \/ (HAVE_X64_IMAGE /\ type = "X64")

\* Mutant of DetachWriteback: P64_dirty is cleared only when the write
\* succeeded.
DetachWriteback_KeepDirty(drive, write_ok) ==
    IF drive.P64_image_loaded # 0 /\ drive.P64_dirty # 0
    THEN IF disk_image_write_p64_image(write_ok) < 0
         THEN [drive |-> drive, trace |-> <<"write_p64_image", "log_error">>]
         ELSE [drive |-> [drive EXCEPT !.P64_dirty = 0],
               trace |-> <<"write_p64_image">>]
    ELSE [drive |-> drive, trace |-> <<"gcr_data_writeback">>]

\* driveimage.c:262-269: the write-back, and the effects it performs.
DetachWriteback(drive, write_ok) ==
    IF drive.P64_image_loaded # 0 /\ drive.P64_dirty # 0
    THEN [drive |-> [drive EXCEPT !.P64_dirty = 0],
          trace |-> IF disk_image_write_p64_image(write_ok) < 0
                    THEN <<"write_p64_image", "log_error">>
                    ELSE <<"write_p64_image">>]
    ELSE [drive |-> drive, trace |-> <<"gcr_data_writeback">>]

\* Mutant of FreeTrack: the size is not reset.
FreeTrack_KeepSize(track) ==
    IF track.data # 0 THEN [data |-> 0, size |-> track.size] ELSE track

\* driveimage.c:271-277, one pass of the loop body for track i.
FreeTrack(track) ==
    IF track.data # 0 THEN [data |-> 0, size |-> 0] ELSE track

RECURSIVE FreeTracks(_, _)
FreeTracks(gcr, i) ==
    IF i > MAX_GCR_TRACKS THEN gcr
    ELSE FreeTracks([gcr EXCEPT ![i] = FreeTrack(gcr[i])], i + 1)

\* Mutant of DetachRejects: the format of the image passed is tested
\* whether or not the drive holds an image.
DetachRejects_EmptyToo(drive, image) ==
    ~DetachKnown(image_type(image))

\* Mutant of DetachRejects: the format tested is the one of the image the
\* drive holds.
DetachRejects_HeldImage(drive, image) ==
    drive.image # NULL /\ ~DetachKnown(image_type(drive.image))

\* driveimage.c:244-260: the format gate of detach.  It runs only when the
\* drive holds an image, and it reads the type of the image passed.
DetachRejects(drive, image) ==
    drive.image # NULL /\ ~DetachKnown(image_type(image))

\* Whether the call gets as far as disk_image_write_p64_image
\* (driveimage.c:264).
DetachReachesWrite(image, unit, drv) ==
    /\ ~UnitOutOfRange(unit)
    /\ ~DetachRejects(drives[unit - 8][drv], image)
    /\ drives[unit - 8][drv].P64_image_loaded # 0
    /\ drives[unit - 8][drv].P64_dirty # 0

\* driveimage.c:278-282
DetachClear(drive, clk) ==
    [drive EXCEPT
        !.detach_clk = clk,
        !.GCR_image_loaded = 0,
        !.P64_image_loaded = 0,
        !.read_only = 0,
        !.image = NULL]

\* Mutant of DetachTeardown: the track buffers are freed before the
\* write-back.
DetachTeardown_FreeFirst(drive, clk, write_ok) ==
    LET freed == [drive EXCEPT !.gcr = FreeTracks(drive.gcr, 1)]
        wb == DetachWriteback(freed, write_ok)
    IN  [drive |-> DetachClear(wb.drive, clk),
         trace |-> <<"free_tracks">> \o wb.trace
                   \o <<"image_null", "set_half_track">>]

\* driveimage.c:262-285: the teardown.
DetachTeardown(drive, clk, write_ok) ==
    LET wb == DetachWriteback(drive, write_ok)
        freed == [wb.drive EXCEPT !.gcr = FreeTracks(wb.drive.gcr, 1)]
    IN  [drive |-> DetachClear(freed, clk),
         trace |-> wb.trace
                   \o <<"free_tracks", "image_null", "set_half_track">>]

drive_image_detach(image, unit, drv, write_ok) ==
    IF UnitOutOfRange(unit)
    THEN [ret |-> -1, stage |-> "unit", drives |-> drives, trace |-> <<>>]
    ELSE
    LET dnr == unit - 8
        drive == drives[dnr][drv]
    IN  IF DetachRejects(drive, image)
        THEN [ret |-> -1, stage |-> "format", drives |-> drives, trace |-> <<>>]
        ELSE
        LET r == DetachTeardown(drive, diskunit_clk[dnr], write_ok)
        IN  [ret |-> 0, stage |-> "done",
             drives |-> [drives EXCEPT ![dnr][drv] = r.drive],
             trace |-> r.trace]

(***************************************************************************)
(* VIC-I snapshot module: src/vice/src/vic20/vic-snapshot.c.               *)
(*                                                                         *)
(* A module in the snapshot container is its name, its version and the     *)
(* bytes written after the header.  The SMW_* writers append the bytes of  *)
(* one value, the SMR_* readers consume them; nothing in the bytes tells   *)
(* one field from the next.                                                *)
(***************************************************************************)
snap_module_name == "VIC-I"
SNAP_MAJOR == 0
SNAP_MINOR == 4

\* The colour RAM block (0x400) and the register file (0x10).
COLOR_RAM_SIZE == 1024
NUM_VIC_REGS == 16

\* vic.cycles_per_line and vic.screen_height of the PAL machine.
CYCLES_PER_LINE == 71
SCREEN_HEIGHT == 312

\* victypes.h: the raster position that belongs to a clock value.
VIC_RASTER_CYCLE(clk) == clk % CYCLES_PER_LINE
VIC_RASTER_Y(clk) == (clk \div CYCLES_PER_LINE) % SCREEN_HEIGHT

\* Bytes of a value of each kind: byte, word, doubleword, clock.
Width(kind) ==
    CASE kind = "B" -> 1
      [] kind = "W" -> 2
      [] kind = "DW" -> 4
      [] kind = "CLOCK" -> 8

\* The low n bytes of v, least significant first.  \div rounds down, so a
\* negative v yields its two's complement bytes: this is the conversion
\* the casts to uint8_t, uint16_t and uint32_t perform.
RECURSIVE LittleEndian(_, _)
LittleEndian(v, n) ==
    IF n = 0 THEN <<>>
    ELSE <<v % 256>> \o LittleEndian(v \div 256, n - 1)

\* SMW_B, SMW_W, SMW_DW, SMW_CLOCK: the bytes the call appends.
SMW(kind, value) == LittleEndian(value, Width(kind))

\* The value of up to three bytes, least significant first.
RECURSIVE Unsigned(_)
Unsigned(bytes) ==
    IF bytes = <<>> THEN 0
    ELSE Head(bytes) + 256 * Unsigned(Tail(bytes))

\* The value of a doubleword read as int (SMR_DW_INT).
Signed32(bytes) ==
    IF bytes[4] >= 128
    THEN (Unsigned(SubSeq(bytes, 1, 3)) + 16777216 * (bytes[4] - 128)
             - 2147483647) - 1
    ELSE Unsigned(SubSeq(bytes, 1, 3)) + 16777216 * bytes[4]

\* SMR_*: the value the reader stores.  The integers of the model end at
\* 2^31 - 1: an unsigned doubleword above that is held as its two's
\* complement reading, and a clock is held as its low doubleword.
SMR(reader, bytes) ==
    CASE reader \in {"B", "B_INT", "B_UINT", "W_INT", "W_UINT"} ->
             Unsigned(bytes)
      [] reader \in {"DW_INT", "DW_UINT"} -> Signed32(bytes)
      [] reader = "CLOCK" -> Signed32(SubSeq(bytes, 1, 4))

\* The kind of value each reader consumes.
ReaderKind(reader) ==
    CASE reader \in {"B", "B_INT", "B_UINT"} -> "B"
      [] reader \in {"W_INT", "W_UINT"} -> "W"
      [] reader \in {"DW_INT", "DW_UINT"} -> "DW"
      [] reader = "CLOCK" -> "CLOCK"

\* snapshot_version_is_smaller(major, minor, major_required,
\* minor_required): the version is strictly older than the required one.
snapshot_version_is_smaller(major, minor, major_req, minor_req) ==
    \/ major < major_req
    \/ (major = major_req /\ minor < minor_req)

\* Mutant of WriteFields: buf_offset is left out.
WriteFields_NoBufOffset ==
    << <<"interlace_enabled", "DW">>,
       <<"interlace_field", "DW">>,
       <<"framestart_cycle", "CLOCK">>,
       <<"raster_cycle", "B">>,
       <<"raster_line", "W">>,
       <<"area", "W">>,
       <<"fetch_state", "W">>,
       <<"raster_line", "DW">>,
       <<"text_cols", "DW">>,
       <<"text_lines", "DW">>,
       <<"pending_text_cols", "DW">>,
       <<"line_was_blank", "DW">>,
       <<"memptr", "DW">>,
       <<"memptr_inc", "DW">>,
       <<"row_counter", "DW">>,
       <<"light_pen.state", "B">>,
       <<"light_pen.triggered", "B">>,
       <<"light_pen.x", "DW">>,
       <<"light_pen.y", "DW">>,
       <<"light_pen.x_extra_bits", "DW">>,
       <<"light_pen.trigger_cycle", "CLOCK">>,
       <<"vbuf", "B">> >>

\* vic-snapshot.c:61-83: the scalar fields in the order written, each with
\* the SMW_ call that writes it.
WriteFields ==
    << <<"interlace_enabled", "DW">>,
       <<"interlace_field", "DW">>,
       <<"framestart_cycle", "CLOCK">>,
       <<"raster_cycle", "B">>,
       <<"raster_line", "W">>,
       <<"area", "W">>,
       <<"fetch_state", "W">>,
       <<"raster_line", "DW">>,
       <<"text_cols", "DW">>,
       <<"text_lines", "DW">>,
       <<"pending_text_cols", "DW">>,
       <<"line_was_blank", "DW">>,
       <<"memptr", "DW">>,
       <<"memptr_inc", "DW">>,
       <<"row_counter", "DW">>,
       <<"buf_offset", "DW">>,
       <<"light_pen.state", "B">>,
       <<"light_pen.triggered", "B">>,
       <<"light_pen.x", "DW">>,
       <<"light_pen.y", "DW">>,
       <<"light_pen.x_extra_bits", "DW">>,
       <<"light_pen.trigger_cycle", "CLOCK">>,
       <<"vbuf", "B">> >>

\* Mutant of ReadFields: text_cols and text_lines are read in the other
\* order.
ReadFields_SwapTextColsLines ==
    << <<"interlace_enabled", "DW_INT">>,
       <<"interlace_field", "DW_INT">>,
       <<"framestart_cycle", "CLOCK">>,
       <<"raster_cycle", "B_UINT">>,
       <<"raster_line", "W_UINT">>,
       <<"area", "W_INT">>,
       <<"fetch_state", "W_INT">>,
       <<"raster_line", "DW_UINT">>,
       <<"text_lines", "DW_UINT">>,
       <<"text_cols", "DW_UINT">>,
       <<"pending_text_cols", "DW_UINT">>,
       <<"line_was_blank", "DW_UINT">>,
       <<"memptr", "DW_UINT">>,
       <<"memptr_inc", "DW_UINT">>,
       <<"row_counter", "DW_UINT">>,
       <<"buf_offset", "DW_UINT">>,
       <<"light_pen.state", "B_INT">>,
       <<"light_pen.triggered", "B_INT">>,
       <<"light_pen.x", "DW_INT">>,
       <<"light_pen.y", "DW_INT">>,
       <<"light_pen.x_extra_bits", "DW_INT">>,
       <<"light_pen.trigger_cycle", "CLOCK">>,
       <<"vbuf", "B">> >>

\* vic-snapshot.c:136-158: the scalar fields in the order read, each with
\* the SMR_ call that reads it.
ReadFields ==
    << <<"interlace_enabled", "DW_INT">>,
       <<"interlace_field", "DW_INT">>,
       <<"framestart_cycle", "CLOCK">>,
       <<"raster_cycle", "B_UINT">>,
       <<"raster_line", "W_UINT">>,
       <<"area", "W_INT">>,
       <<"fetch_state", "W_INT">>,
       <<"raster_line", "DW_UINT">>,
       <<"text_cols", "DW_UINT">>,
       <<"text_lines", "DW_UINT">>,
       <<"pending_text_cols", "DW_UINT">>,
       <<"line_was_blank", "DW_UINT">>,
       <<"memptr", "DW_UINT">>,
       <<"memptr_inc", "DW_UINT">>,
       <<"row_counter", "DW_UINT">>,
       <<"buf_offset", "DW_UINT">>,
       <<"light_pen.state", "B_INT">>,
       <<"light_pen.triggered", "B_INT">>,
       <<"light_pen.x", "DW_INT">>,
       <<"light_pen.y", "DW_INT">>,
       <<"light_pen.x_extra_bits", "DW_INT">>,
       <<"light_pen.trigger_cycle", "CLOCK">>,
       <<"vbuf", "B">> >>

\* The members of vic the module serializes as scalars.
ScalarFields ==
    {"interlace_enabled", "interlace_field", "framestart_cycle",
     "raster_cycle", "raster_line", "area", "fetch_state", "text_cols",
     "text_lines", "pending_text_cols", "line_was_blank", "memptr",
     "memptr_inc", "row_counter", "buf_offset", "light_pen.state",
     "light_pen.triggered", "light_pen.x", "light_pen.y",
     "light_pen.x_extra_bits", "light_pen.trigger_cycle", "vbuf"}

\* vic.regs[] and vic.raster besides.
VicKeys == ScalarFields \cup {"regs", "raster"}

RegIndex == 0 .. NUM_VIC_REGS - 1

\* raster_snapshot_write(m, &vic.raster): the raster state goes into the
\* module after the registers; raster_snapshot_read takes it back.
raster_snapshot_write(raster) == <<raster % 256>>
raster_snapshot_read(bytes) == bytes[1]

\* vic_store(addr, value): the register file takes the value.
vic_store(v, addr, value) ==
    [v EXCEPT !["regs"] = [@ EXCEPT ![addr] = value]]

\* An entry of the record of calls a routine made.
Call(call, kind, ret) == [call |-> call, kind |-> kind, ret |-> ret]

\* The kinds of the values the successful calls of a routine moved, in
\* order.
RECURSIVE Kinds(_, _)
Kinds(trace, calls) ==
    IF trace = <<>> THEN <<>>
    ELSE IF Head(trace).call \in calls /\ Head(trace).ret = 0
    THEN <<Head(trace).kind>> \o Kinds(Tail(trace), calls)
    ELSE Kinds(Tail(trace), calls)

Writers == {"SMW", "raster_snapshot_write"}
Readers == {"SMR", "raster_snapshot_read"}

(***************************************************************************)
(* vic_snapshot_write_module                                               *)
(***************************************************************************)
\* The writes after snapshot_module_create, in order: the scalars
\* (vic-snapshot.c:61-83), the colour RAM (89), the registers (93-97) and
\* the raster state (99).
NumWriteOps == Len(WriteFields) + 1 + NUM_VIC_REGS + 1

WriteOps(v, mem) ==
    [i \in 1 .. NumWriteOps |->
        IF i <= Len(WriteFields)
        THEN [call |-> "SMW", kind |-> WriteFields[i][2],
              bytes |-> SMW(WriteFields[i][2], v[WriteFields[i][1]])]
        ELSE IF i = Len(WriteFields) + 1
        THEN [call |-> "SMW", kind |-> "BA", bytes |-> mem]
        ELSE IF i <= Len(WriteFields) + 1 + NUM_VIC_REGS
        THEN [call |-> "SMW", kind |-> "B",
              bytes |-> SMW("B", v["regs"][i - Len(WriteFields) - 2])]
        ELSE [call |-> "raster_snapshot_write", kind |-> "RASTER",
              bytes |-> raster_snapshot_write(v["raster"])]]

\* Mutant of WriteStep: the result of the write is not tested.
WriteStep_IgnoreResult(m, op, fails) ==
    IF fails
    THEN [m EXCEPT !.trace = Append(@, Call(op.call, op.kind, -1))]
    ELSE [m EXCEPT !.data = @ \o op.bytes,
                   !.trace = Append(@, Call(op.call, op.kind, 0))]

\* One write and the test of its result: a failed write appends nothing
\* and leaves for the fail label.
WriteStep(m, op, fails) ==
    IF fails
    THEN [m EXCEPT !.trace = Append(@, Call(op.call, op.kind, -1)),
                   !.failed = TRUE]
    ELSE [m EXCEPT !.data = @ \o op.bytes,
                   !.trace = Append(@, Call(op.call, op.kind, 0))]

\* vic-snapshot.c:60-101: the writes in order, up to the first that fails.
RECURSIVE WritePass(_, _, _, _)
WritePass(ops, i, fail_at, m) ==
    IF i > NumWriteOps \/ m.failed THEN m
    ELSE WritePass(ops, i + 1, fail_at, WriteStep(m, ops[i], i = fail_at))

\* The whole call on machine state <<v, mem>> at clock clk.  outcome tells
\* what the container does: "create" fails the create, "field" fails write
\* number fail_at, "close" fails the close, "ok" fails nothing.  stored is
\* the module the container holds afterwards; its fields from_writer on
\* record what was written, for the properties.
vic_snapshot_write_module(v, mem, clk, old, outcome, fail_at) ==
    IF outcome = "create"
    THEN [ret |-> -1, stored |-> old,
          trace |-> <<Call("snapshot_module_create", "", -1)>>]
    ELSE
    LET m == WritePass(WriteOps(v, mem), 1,
                       IF outcome = "field" THEN fail_at ELSE 0,
                       [data |-> <<>>, failed |-> FALSE,
                        trace |-> <<Call("snapshot_module_create", "", 0)>>])
        close == IF outcome = "close" THEN -1 ELSE 0
        ret == IF m.failed THEN -1 ELSE close
    IN  [ret |-> ret,
         stored |-> [name |-> snap_module_name, major |-> SNAP_MAJOR,
                     minor |-> SNAP_MINOR, data |-> m.data,
                     from_writer |-> TRUE, write_ret |-> ret,
                     layout |-> Kinds(m.trace, Writers),
                     vic |-> v, mem_ram |-> mem, clk |-> clk],
         trace |-> Append(m.trace,
                          Call("snapshot_module_close", "", close))]

(***************************************************************************)
(* vic_snapshot_read_module                                                *)
(***************************************************************************)
\* The reads after the version gate, in order: the scalars
\* (vic-snapshot.c:136-158), the colour RAM (163) and the registers
\* (167-174); the raster state (188) follows the timing checks.
NumReadOps == Len(ReadFields) + 1 + NUM_VIC_REGS

ReadKind(i) ==
    IF i <= Len(ReadFields) THEN ReaderKind(ReadFields[i][2])
    ELSE IF i = Len(ReadFields) + 1 THEN "BA"
    ELSE "B"

ReadWidth(i) ==
    IF ReadKind(i) = "BA" THEN COLOR_RAM_SIZE ELSE Width(ReadKind(i))

\* What read number i does with the bytes it got.
ReadStore(st, i, bytes) ==
    LET done == [st EXCEPT
                    !.pos = @ + Len(bytes),
                    !.trace = Append(@, Call("SMR", ReadKind(i), 0))]
    IN  IF i <= Len(ReadFields)
        THEN [done EXCEPT !.vic[ReadFields[i][1]] =
                              SMR(ReadFields[i][2], bytes)]
        ELSE IF i = Len(ReadFields) + 1
        THEN [done EXCEPT !.mem_ram = bytes]
        ELSE [done EXCEPT
                 !.vic = vic_store(@, i - Len(ReadFields) - 2,
                                   SMR("B", bytes)),
                 !.trace = Append(@, Call("vic_store", "", 0))]

\* A read fails when the container fails it or the module has too few
\* bytes left; it stores nothing then.
RECURSIVE ReadPass(_, _, _, _)
ReadPass(data, i, fail_at, st) ==
    IF i > NumReadOps \/ st.failed THEN st
    ELSE IF i = fail_at \/ st.pos + ReadWidth(i) - 1 > Len(data)
    THEN [st EXCEPT !.trace = Append(@, Call("SMR", ReadKind(i), -1)),
                    !.failed = TRUE]
    ELSE ReadPass(data, i + 1, fail_at,
                  ReadStore(st, i,
                            SubSeq(data, st.pos, st.pos + ReadWidth(i) - 1)))

\* Mutant of VersionGate: the minor version is not compared.
VersionGate_MajorOnly(major, minor) ==
    snapshot_version_is_smaller(major, SNAP_MINOR, SNAP_MAJOR, SNAP_MINOR)

\* vic-snapshot.c:128: the version test of the reader.
VersionGate(major, minor) ==
    snapshot_version_is_smaller(major, minor, SNAP_MAJOR, SNAP_MINOR)

\* Mutant of ReadFail: the fail label returns without closing the module.
ReadFail_NoClose(v, mem, trace) ==
    [ret |-> -1, vic |-> v, mem_ram |-> mem, trace |-> trace]

\* vic-snapshot.c:195-199: the fail label.
ReadFail(v, mem, trace) ==
    [ret |-> -1, vic |-> v, mem_ram |-> mem,
     trace |-> Append(trace, Call("snapshot_module_close", "", 0))]

\* Mutant of ReadFinish: the raster line is not compared with the clock.
ReadFinish_NoLineCheck(st, data, clk, outcome, fail_at) ==
    IF st.vic["raster_cycle"] # VIC_RASTER_CYCLE(clk)
    THEN ReadFail(st.vic, st.mem_ram,
                  Append(st.trace, Call("log_error", "", 0)))
    ELSE IF fail_at = NumReadOps + 1 \/ st.pos > Len(data)
    THEN ReadFail(st.vic, st.mem_ram,
                  Append(st.trace,
                         Call("raster_snapshot_read", "RASTER", -1)))
    ELSE
    LET close == IF outcome = "close" THEN -1 ELSE 0
    IN  [ret |-> close,
         vic |-> [st.vic EXCEPT !["raster"] =
                     raster_snapshot_read(SubSeq(data, st.pos, st.pos))],
         mem_ram |-> st.mem_ram,
         trace |-> st.trace
                   \o <<Call("raster_snapshot_read", "RASTER", 0),
                        Call("raster_force_repaint", "", 0),
                        Call("snapshot_module_close", "", close)>>]

\* Mutant of ReadFinish: the raster state is read before the timing checks.
ReadFinish_RasterFirst(st, data, clk, outcome, fail_at) ==
    IF fail_at = NumReadOps + 1 \/ st.pos > Len(data)
    THEN ReadFail(st.vic, st.mem_ram,
                  Append(st.trace,
                         Call("raster_snapshot_read", "RASTER", -1)))
    ELSE
    LET got == [st EXCEPT
                   !.vic["raster"] =
                       raster_snapshot_read(SubSeq(data, st.pos, st.pos)),
                   !.trace = Append(@, Call("raster_snapshot_read",
                                            "RASTER", 0))]
        close == IF outcome = "close" THEN -1 ELSE 0
    IN  IF got.vic["raster_cycle"] # VIC_RASTER_CYCLE(clk)
           \/ got.vic["raster_line"] # VIC_RASTER_Y(clk)
        THEN ReadFail(got.vic, got.mem_ram,
                      Append(got.trace, Call("log_error", "", 0)))
        ELSE [ret |-> close, vic |-> got.vic, mem_ram |-> got.mem_ram,
              trace |-> got.trace
                        \o <<Call("raster_force_repaint", "", 0),
                             Call("snapshot_module_close", "", close)>>]

\* vic-snapshot.c:176-193: the timing checks, the raster state, the
\* repaint and the close.
ReadFinish(st, data, clk, outcome, fail_at) ==
    IF st.vic["raster_cycle"] # VIC_RASTER_CYCLE(clk)
       \/ st.vic["raster_line"] # VIC_RASTER_Y(clk)
    THEN ReadFail(st.vic, st.mem_ram,
                  Append(st.trace, Call("log_error", "", 0)))
    ELSE IF fail_at = NumReadOps + 1 \/ st.pos > Len(data)
    THEN ReadFail(st.vic, st.mem_ram,
                  Append(st.trace,
                         Call("raster_snapshot_read", "RASTER", -1)))
    ELSE
    LET close == IF outcome = "close" THEN -1 ELSE 0
    IN  [ret |-> close,
         vic |-> [st.vic EXCEPT !["raster"] =
                     raster_snapshot_read(SubSeq(data, st.pos, st.pos))],
         mem_ram |-> st.mem_ram,
         trace |-> st.trace
                   \o <<Call("raster_snapshot_read", "RASTER", 0),
                        Call("raster_force_repaint", "", 0),
                        Call("snapshot_module_close", "", close)>>]

\* The whole call on machine state <<v, mem>> at clock clk with module m in
\* the container.  outcome "open" fails the open, "field" fails read number
\* fail_at, "close" fails the close.
vic_snapshot_read_module(v, mem, clk, m, outcome, fail_at) ==
    LET opened == <<Call("sound_close", "", 0),
                    Call("snapshot_module_open", "", 0)>>
    IN  IF outcome = "open" \/ m.name # snap_module_name
        THEN [ret |-> -1, vic |-> v, mem_ram |-> mem,
              trace |-> <<Call("sound_close", "", 0),
                          Call("snapshot_module_open", "", -1)>>]
        ELSE IF VersionGate(m.major, m.minor)
        THEN ReadFail(v, mem, Append(opened, Call("log_error", "", 0)))
        ELSE
        LET st == ReadPass(m.data, 1,
                           IF outcome = "field" THEN fail_at ELSE 0,
                           [vic |-> v, mem_ram |-> mem, pos |-> 1,
                            failed |-> FALSE, trace |-> opened])
        IN  IF st.failed
            THEN ReadFail(st.vic, st.mem_ram, st.trace)
            ELSE ReadFinish(st, m.data, clk, outcome,
                            IF outcome = "field" THEN fail_at ELSE 0)

(***************************************************************************)
(* Machine states and modules the runs start from.                         *)
(***************************************************************************)
\* The machine clocks of the model: power-up, and cycles 0 and 70 of line
\* 300.
Clocks == {0, 21300, 21370}

\* The VIC after a reset, at clock clk.
VicReset(clk) ==
    [f \in VicKeys |->
        CASE f = "raster_cycle" -> VIC_RASTER_CYCLE(clk)
          [] f = "raster_line" -> VIC_RASTER_Y(clk)
          [] f = "regs" -> [i \in RegIndex |-> 0]
          [] OTHER -> 0]

\* A VIC with a different value in every member, at the ends of the range
\* each member is serialized with.
VicBusy(clk) ==
    [f \in VicKeys |->
        CASE f = "interlace_enabled" -> 1
          [] f = "interlace_field" -> (-2147483647) - 1
          [] f = "framestart_cycle" -> 2147483647
          [] f = "raster_cycle" -> VIC_RASTER_CYCLE(clk)
          [] f = "raster_line" -> VIC_RASTER_Y(clk)
          [] f = "area" -> 65535
          [] f = "fetch_state" -> 258
          [] f = "text_cols" -> 2147483646
          [] f = "text_lines" -> 65536
          [] f = "pending_text_cols" -> 16777217
          [] f = "line_was_blank" -> 3
          [] f = "memptr" -> 4660
          [] f = "memptr_inc" -> 22
          [] f = "row_counter" -> 254
          [] f = "buf_offset" -> 256
          [] f = "light_pen.state" -> 255
          [] f = "light_pen.triggered" -> 2
          [] f = "light_pen.x" -> -1
          [] f = "light_pen.y" -> -256
          [] f = "light_pen.x_extra_bits" -> 7
          [] f = "light_pen.trigger_cycle" -> 305419896
          [] f = "vbuf" -> 200
          [] f = "regs" -> [i \in RegIndex |-> (i * 17) % 256]
          [] f = "raster" -> 9]

ColourReset == [j \in 1 .. COLOR_RAM_SIZE |-> 0]
ColourBusy == [j \in 1 .. COLOR_RAM_SIZE |-> (j * 7) % 256]

\* The machine states a run of the emulation passes through at clock clk:
\* it powers up reset, and later is reset again or busy.
MachineStates(clk) ==
    {[vic |-> VicReset(clk), mem_ram |-> ColourReset]}
    \cup {[vic |-> VicBusy(clk), mem_ram |-> ColourBusy] : c \in {clk} \ {0}}

\* The container holds no VIC-I module.
NoModule ==
    [name |-> "", major |-> 0, minor |-> 0, data |-> <<>>,
     from_writer |-> FALSE, write_ret |-> 0, layout |-> <<>>,
     vic |-> <<>>, mem_ram |-> <<>>, clk |-> 0]

\* The bytes of a complete module for a machine state.
RECURSIVE Bytes(_, _)
Bytes(ops, i) ==
    IF i > Len(ops) THEN <<>> ELSE ops[i].bytes \o Bytes(ops, i + 1)

\* A VIC-I module another version of the program left in the container,
\* with the bytes of the busy machine at clock clk.
Foreign(major, minor, clk) ==
    [NoModule EXCEPT
        !.name = snap_module_name, !.major = major, !.minor = minor,
        !.data = Bytes(WriteOps(VicBusy(clk), ColourBusy), 1)]

\* The versions of such modules: older minors and a newer major.
ForeignVersions == {<<0, 0>>, <<0, 3>>, <<1, 0>>}

NoSnapCall == [op |-> "none", outcome |-> "none", ret |-> 0, trace |-> <<>>]

\* The snapshot side while the drive side runs: it plays no part there and
\* is held at empty values.
SnapIdle ==
    /\ vic = <<>>
    /\ mem_ram = <<>>
    /\ maincpu_clk = 0
    /\ module = NoModule
    /\ snap_call = NoSnapCall
    /\ io_fault = 1

(***************************************************************************)
(* Resource-bound text entries and file browsers of the Gtk3 UI:           *)
(* src/vice/src/arch/gtk3/widgets/base/resourceentry.c and                 *)
(* resourcebrowser.c.                                                      *)
(*                                                                         *)
(* The text of an entry and the value of a string resource are sequences   *)
(* of characters; a dialog title is a string constant.  A char pointer is  *)
(* <<>> when it is NULL and <<s>> when it points to the string s.          *)
(***************************************************************************)
MaxTextLen == 2   \* the texts of the model have up to MaxTextLen characters

Chars == {"a"}
Texts == UNION {[1 .. n -> Chars] : n \in 0 .. MaxTextLen}

NullString == <<>>
String(s) == <<s>>
TextPointers == {NullString} \cup {String(t) : t \in Texts}

\* The resource the widget is bound to, as the resource store holds it:
\* known tells whether there is a string resource of the name.
Resources ==
    {[known |-> TRUE, value |-> v] : v \in TextPointers}
    \cup {[known |-> FALSE, value |-> NullString]}

\* resources_get_string(name, &value): -1 when there is no string resource
\* of the name; the callers do not read value then.
resources_get_string(res) ==
    IF res.known THEN [ret |-> 0, value |-> res.value]
    ELSE [ret |-> -1, value |-> NullString]

\* resources_set_string(name, value): -1 when there is no string resource
\* of the name or the handler of the resource refuses the value; the
\* resource keeps its value then.
resources_set_string(res, value, accept) ==
    IF res.known /\ accept
    THEN [ret |-> 0, res |-> [res EXCEPT !.value = String(value)]]
    ELSE [ret |-> -1, res |-> res]

\* lib_strdup(str): a copy of the string.  Given NULL it returns NULL or
\* ends the process.
LibStrdupNull == {"returns_null", "exits"}

lib_strdup(str, on_null) ==
    [exits |-> str = NullString /\ on_null = "exits", ptr |-> str]

\* The calls a routine made on the resource store and the log.
LogError == [call |-> "log_error", kind |-> <<>>, ret |-> 0]
GetString(ret) == [call |-> "resources_get_string", kind |-> <<>>, ret |-> ret]
SetString(value, ret) ==
    [call |-> "resources_set_string", kind |-> value, ret |-> ret]

\* A widget: the entry with its "ResourceOrig" and auto-update properties,
\* and, for a browser, the members of resource_browser_state_t.  callback
\* is "NULL", "user" for the function of the caller, or "uninitialized"
\* for a member nothing was stored in.  created is the resource as it was
\* when the widget was made.
NoWidget ==
    [kind |-> "none", text |-> <<>>, ResourceOrig |-> NullString,
     auto_update |-> FALSE, browser_title |-> NullString,
     res_orig |-> NullString, append_dir |-> NullString,
     callback |-> "NULL", created |-> <<>>]

PlainKinds == {"entry"}
FullKinds == {"entry_full", "browser", "browser_save"}

(***************************************************************************)
(* The plain entry: every change of the text sets the resource.            *)
(***************************************************************************)
\* resourceentry.c:63-74
on_entry_changed(w, res, accept) ==
    LET r == resources_set_string(res, w.text, accept)
    IN  [res |-> r.res,
         trace |-> IF r.ret < 0
                   THEN <<SetString(w.text, r.ret), LogError>>
                   ELSE <<SetString(w.text, r.ret)>>]

\* gtk_entry_set_text(entry, text): when the text changes, "changed" is
\* emitted and runs the handler a plain entry has connected
\* (resourceentry.c:120); a full entry connects none (416-421).
gtk_entry_set_text(w, res, text, accept) ==
    IF text = w.text
    THEN [widget |-> w, res |-> res, trace |-> <<>>]
    ELSE
    LET changed == [w EXCEPT !.text = text]
    IN  IF w.kind \in PlainKinds
        THEN LET c == on_entry_changed(changed, res, accept)
             IN  [widget |-> changed, res |-> c.res, trace |-> c.trace]
        ELSE [widget |-> changed, res |-> res, trace |-> <<>>]

\* resourceentry.c:89-125.  The text is set (103) before the handler is
\* connected (120).
vice_gtk3_resource_entry_new(res) ==
    LET g == resources_get_string(res)
        current == IF g.ret < 0 THEN NullString ELSE g.value
    IN  [NoWidget EXCEPT
            !.kind = "entry",
            !.text = IF current # NullString THEN current[1] ELSE <<>>,
            !.ResourceOrig = current,
            !.created = res]

\* resourceentry.c:135-143
vice_gtk3_resource_entry_set(w, res, new, accept) ==
    LET s == gtk_entry_set_text(w, res,
                                IF new # NullString THEN new[1] ELSE <<>>,
                                accept)
    IN  [ret |-> TRUE, widget |-> s.widget, res |-> s.res, trace |-> s.trace]

\* resourceentry.c:197-219
vice_gtk3_resource_entry_reset(w, res, accept) ==
    LET orig == w.ResourceOrig
        g == resources_get_string(res)
    IN  IF g.ret < 0
        THEN [ret |-> FALSE, widget |-> w, res |-> res,
              trace |-> <<GetString(g.ret), LogError>>]
        ELSE IF orig = NullString \/ g.value = NullString
        THEN [ret |-> FALSE, widget |-> w, res |-> res,
              trace |-> <<GetString(g.ret)>>]
        ELSE IF g.value[1] # orig[1]
        THEN LET s == gtk_entry_set_text(w, res, orig[1], accept)
             IN  [ret |-> TRUE, widget |-> s.widget, res |-> s.res,
                  trace |-> <<GetString(g.ret)>> \o s.trace]
        ELSE [ret |-> TRUE, widget |-> w, res |-> res,
              trace |-> <<GetString(g.ret)>>]

(***************************************************************************)
(* The full entry: the resource is set on Enter and on focus-out.          *)
(***************************************************************************)
\* resourceentry.c:292-313
resource_entry_full_update_resource(w, res, accept) ==
    LET g == resources_get_string(res)
    IN  IF g.ret < 0
        THEN [ret |-> FALSE, res |-> res,
              trace |-> <<GetString(g.ret), LogError>>]
        ELSE IF g.value = NullString \/ w.text # g.value[1]
        THEN LET r == resources_set_string(res, w.text, accept)
             IN  IF r.ret < 0
                 THEN [ret |-> FALSE, res |-> r.res,
                       trace |-> <<GetString(g.ret),
                                   SetString(w.text, r.ret), LogError>>]
                 ELSE [ret |-> TRUE, res |-> r.res,
                       trace |-> <<GetString(g.ret),
                                   SetString(w.text, r.ret)>>]
        ELSE [ret |-> TRUE, res |-> res, trace |-> <<GetString(g.ret)>>]

\* resourceentry.c:324-334
on_focus_out_event(w, res, accept) ==
    IF w.auto_update
    THEN LET u == resource_entry_full_update_resource(w, res, accept)
         IN  [ret |-> FALSE, res |-> u.res, trace |-> u.trace]
    ELSE [ret |-> FALSE, res |-> res, trace |-> <<>>]

\* Mutant of on_key_press_event: every key updates the resource.
on_key_press_event_AnyKey(w, res, key, accept) ==
    IF w.auto_update
    THEN LET u == resource_entry_full_update_resource(w, res, accept)
         IN  [ret |-> key = "Return", res |-> u.res, trace |-> u.trace]
    ELSE [ret |-> FALSE, res |-> res, trace |-> <<>>]

\* resourceentry.c:346-364: TRUE when the handler has taken the key.
on_key_press_event(w, res, key, accept) ==
    IF w.auto_update /\ key = "Return"
    THEN LET u == resource_entry_full_update_resource(w, res, accept)
         IN  [ret |-> TRUE, res |-> u.res, trace |-> u.trace]
    ELSE [ret |-> FALSE, res |-> res, trace |-> <<>>]

\* The keys of the model: the characters, BackSpace and Return.
Keys == Chars \cup {"BackSpace", "Return"}

\* What the entry does with a key no handler has taken: a character is
\* appended while there is room, BackSpace removes the last character.
KeyDefault(text, key) ==
    IF key \in Chars
    THEN IF Len(text) < MaxTextLen THEN Append(text, key) ELSE text
    ELSE IF key = "BackSpace" /\ text # <<>>
    THEN SubSeq(text, 1, Len(text) - 1)
    ELSE text

\* Mutant of vice_gtk3_resource_entry_full_new: the original value is taken
\* for empty.
vice_gtk3_resource_entry_full_new_OrigEmpty(res) ==
    LET g == resources_get_string(res)
        current == IF g.ret < 0 THEN NullString ELSE g.value
    IN  [NoWidget EXCEPT
            !.kind = "entry_full",
            !.auto_update = TRUE,
            !.ResourceOrig = String(<<>>),
            !.text = IF current # NullString THEN current[1] ELSE <<>>,
            !.created = res]

\* resourceentry.c:378-424
vice_gtk3_resource_entry_full_new(res) ==
    LET g == resources_get_string(res)
        current == IF g.ret < 0 THEN NullString ELSE g.value
    IN  [NoWidget EXCEPT
            !.kind = "entry_full",
            !.auto_update = TRUE,
            !.ResourceOrig = IF current # NullString THEN current
                             ELSE String(<<>>),
            !.text = IF current # NullString THEN current[1] ELSE <<>>,
            !.created = res]

\* resourceentry.c:462-465
vice_gtk3_resource_entry_full_disable_auto_update(w) ==
    [w EXCEPT !.auto_update = FALSE]

\* Mutant of vice_gtk3_resource_entry_full_set: the text is set before the
\* resource.
vice_gtk3_resource_entry_full_set_TextFirst(w, res, new, accept) ==
    LET text == IF new = NullString THEN <<>> ELSE new[1]
        r == resources_set_string(res, text, accept)
        s == gtk_entry_set_text(w, r.res, text, accept)
    IN  IF r.ret < 0
        THEN [ret |-> FALSE, widget |-> s.widget, res |-> r.res,
              trace |-> <<SetString(text, r.ret), LogError>>]
        ELSE [ret |-> TRUE, widget |-> s.widget, res |-> s.res,
              trace |-> <<SetString(text, r.ret)>>]

\* resourceentry.c:499-515
vice_gtk3_resource_entry_full_set(w, res, new, accept) ==
    LET text == IF new = NullString THEN <<>> ELSE new[1]
        r == resources_set_string(res, text, accept)
    IN  IF r.ret < 0
        THEN [ret |-> FALSE, widget |-> w, res |-> r.res,
              trace |-> <<SetString(text, r.ret), LogError>>]
        ELSE LET s == gtk_entry_set_text(w, r.res, text, accept)
             IN  [ret |-> TRUE, widget |-> s.widget, res |-> s.res,
                  trace |-> <<SetString(text, r.ret)>>]

\* resourceentry.c:478-484
vice_gtk3_resource_entry_full_reset(w, res, accept) ==
    vice_gtk3_resource_entry_full_set(w, res, w.ResourceOrig, accept)

(***************************************************************************)
(* The browser: a full entry, a browse button and the state the file       *)
(* dialog is opened with.                                                  *)
(***************************************************************************)
SelectFile == String("Select file")

\* The titles callers pass: none, the empty string, a title.
TitleInputs == {NullString, String(""), String("Attach cartridge image")}

\* resourcebrowser.c:359-364, 578-583: the value the browser goes back to.
BrowserOrig(res) ==
    LET g == resources_get_string(res)
    IN  IF g.ret < 0 THEN String(<<>>)
        ELSE IF g.value = NullString THEN String(<<>>)
        ELSE g.value

\* resourcebrowser.c:379-384: the copy of the title.
BrowserTitle(browser_title, on_null) ==
    IF browser_title # NullString /\ browser_title[1] # ""
    THEN lib_strdup(SelectFile, on_null)
    ELSE lib_strdup(browser_title, on_null)

\* resourcebrowser.c:588-593
BrowserSaveTitle(browser_title, on_null) ==
    IF browser_title # NullString
    THEN lib_strdup(SelectFile, on_null)
    ELSE lib_strdup(browser_title, on_null)

\* The rest of both constructors: the state object and the full entry
\* (resourcebrowser.c:352-412, 573-618).
BrowserState(kind, res, title, callback) ==
    [vice_gtk3_resource_entry_full_new(res) EXCEPT
        !.kind = kind,
        !.res_orig = BrowserOrig(res),
        !.browser_title = title,
        !.append_dir = NullString,
        !.callback = callback]

\* The callbacks callers pass: none, or a function of theirs.
Callbacks == {"NULL", "user"}

\* resourcebrowser.c:335-429.  The callback is stored at 367.
vice_gtk3_resource_browser_new(res, browser_title, callback, on_null) ==
    LET title == BrowserTitle(browser_title, on_null)
    IN  IF title.exits THEN [returns |-> FALSE, widget |-> NoWidget]
        ELSE [returns |-> TRUE,
              widget |-> BrowserState("browser", res, title.ptr, callback)]

\* resourcebrowser.c:557-627.  The state object comes from lib_malloc
\* (573) and the callback passed is stored nowhere: state->callback is
\* left as the allocator delivered it.
vice_gtk3_resource_browser_save_new(res, browser_title, callback, on_null) ==
    LET title == BrowserSaveTitle(browser_title, on_null)
    IN  IF title.exits THEN [returns |-> FALSE, widget |-> NoWidget]
        ELSE [returns |-> TRUE,
              widget |-> BrowserState("browser_save", res, title.ptr,
                                      "uninitialized")]

(***************************************************************************)
(* The file dialog hands the chosen name to the browser, and               *)
(* vice_gtk3_resource_browser_set sets a name from the code.  accept and   *)
(* restore tell whether the resource takes the new value and, after it     *)
(* refused, the original one.                                              *)
(***************************************************************************)
UserCallback(filename) ==
    [call |-> "callback", kind |-> filename, ret |-> 0]

\* The call through a pointer that points to no function.
WildCall == [call |-> "wild_call", kind |-> <<>>, ret |-> 0]

\* What a read of state->callback yields: the member when it was stored,
\* and otherwise what the memory held, NULL or something else.
Garbage == {"NULL", "wild"}

ReadCallback(w, garbage) ==
    IF w.callback = "uninitialized" THEN garbage ELSE w.callback

\* resourcebrowser.c:139-144, 170-175: the chosen name was refused.
Revert(w, res, failed, restore) ==
    LET r == resources_set_string(res, w.res_orig[1], restore)
        t == gtk_entry_set_text(w, r.res, w.res_orig[1], restore)
    IN  [returned |-> TRUE, widget |-> t.widget, res |-> t.res,
         trace |-> failed \o <<LogError, SetString(w.res_orig[1], r.ret)>>
                   \o t.trace]

\* resourcebrowser.c:146-148, 177-179: the call of the user callback.
Notify(w, res, filename, set, garbage) ==
    LET callback == ReadCallback(w, garbage)
    IN  CASE callback = "NULL" ->
                 [returned |-> TRUE, widget |-> w, res |-> res, trace |-> set]
          [] callback = "user" ->
                 [returned |-> TRUE, widget |-> w, res |-> res,
                  trace |-> Append(set, UserCallback(filename[1]))]
          [] OTHER ->
                 [returned |-> FALSE, widget |-> w, res |-> res,
                  trace |-> Append(set, WildCall)]

\* Mutant of browse_filename_callback: the user callback is called whether
\* the resource took the name or not.
browse_filename_callback_AlwaysNotify(w, res, filename, accept, restore, garbage) ==
    IF filename = NullString
    THEN [returned |-> TRUE, widget |-> w, res |-> res, trace |-> <<>>]
    ELSE
    LET s == vice_gtk3_resource_entry_full_set(w, res, filename, accept)
    IN  IF ~s.ret
        THEN LET v == Revert(s.widget, s.res, s.trace, restore)
             IN  Notify(v.widget, v.res, filename, v.trace, garbage)
        ELSE Notify(s.widget, s.res, filename, s.trace, garbage)

\* resourcebrowser.c:131-153.  filename is NULL when the dialog was
\* cancelled.
browse_filename_callback(w, res, filename, accept, restore, garbage) ==
    IF filename = NullString
    THEN [returned |-> TRUE, widget |-> w, res |-> res, trace |-> <<>>]
    ELSE
    LET s == vice_gtk3_resource_entry_full_set(w, res, filename, accept)
    IN  IF ~s.ret
        THEN Revert(s.widget, s.res, s.trace, restore)
        ELSE Notify(s.widget, s.res, filename, s.trace, garbage)

\* resourcebrowser.c:162-184
save_filename_callback(w, res, filename, accept, restore, garbage) ==
    IF filename = NullString
    THEN [returned |-> TRUE, widget |-> w, res |-> res, trace |-> <<>>]
    ELSE
    LET s == vice_gtk3_resource_entry_full_set(w, res, filename, accept)
    IN  IF ~s.ret
        THEN Revert(s.widget, s.res, s.trace, restore)
        ELSE Notify(s.widget, s.res, filename, s.trace, garbage)

\* resources_set_string(name, NULL): the resource holds no string then.
resources_set_string_null(res, accept) ==
    IF res.known /\ accept
    THEN [ret |-> 0, res |-> [res EXCEPT !.value = NullString]]
    ELSE [ret |-> -1, res |-> res]

\* resourcebrowser.c:439-453
vice_gtk3_resource_browser_set(w, res, new, accept, restore) ==
    LET text == IF new # NullString THEN new[1] ELSE <<>>
        r == IF new # NullString
             THEN resources_set_string(res, text, accept)
             ELSE resources_set_string_null(res, accept)
    IN  IF r.ret < 0
        THEN LET o == resources_set_string(r.res, w.res_orig[1], restore)
                 t == gtk_entry_set_text(w, o.res, w.res_orig[1], restore)
             IN  [ret |-> FALSE, widget |-> t.widget, res |-> t.res,
                  trace |-> <<SetString(text, r.ret),
                              SetString(w.res_orig[1], o.ret)>> \o t.trace]
        ELSE LET t == gtk_entry_set_text(w, r.res, text, accept)
             IN  [ret |-> TRUE, widget |-> t.widget, res |-> t.res,
                  trace |-> <<SetString(text, r.ret)>> \o t.trace]

NoUiCall ==
    [op |-> "none", arg |-> <<>>, ret |-> FALSE, returned |-> TRUE,
     trace |-> <<>>]

\* The widget side while the other sides run: it plays no part there and
\* is held at empty values.
WidgetIdle ==
    /\ resource = <<>>
    /\ widget = <<>>
    /\ ui_call = <<>>

(***************************************************************************)
(* VSID control widget: src/vice/src/arch/gtk3/widgets/vsidcontrolwidget.c.*)
(*                                                                         *)
(* The buttons work on the shared vsid_state_t (tune_count, tune_current,  *)
(* tune_default, psid_filename) and on the resource "Speed".  Each         *)
(* callback gives the new state and the calls it makes into the machine,   *)
(* in order, as records [call, arg].                                       *)
(***************************************************************************)
MaxTunes == 3         \* the PSID files of the model have 1..MaxTunes tunes

FFWD_SPEED == 500

MachineCall(call, arg) == [call |-> call, arg |-> arg]

\* vsidcontrolwidget.c:111-130: reset the machine and start the tune that
\* is current.
play_current_tune(state) ==
    <<MachineCall("machine_trigger_reset", 0),
      MachineCall("psid_init_driver", 0),
      MachineCall("machine_play_psid", state.tune_current)>>

\* Mutant of next_tune_callback: the last tune is not taken for the end.
next_tune_callback_PastLast(state) ==
    LET next == [state EXCEPT !.tune_current =
                    IF @ > state.tune_count \/ @ < 1 THEN 1 ELSE @ + 1]
    IN  [state |-> next, trace |-> play_current_tune(next)]

\* vsidcontrolwidget.c:140-155
next_tune_callback(state) ==
    LET next == [state EXCEPT !.tune_current =
                    IF @ >= state.tune_count \/ @ < 1 THEN 1 ELSE @ + 1]
    IN  [state |-> next, trace |-> play_current_tune(next)]

\* vsidcontrolwidget.c:165-180
prev_tune_callback(state) ==
    LET prev == [state EXCEPT !.tune_current =
                    IF @ <= 1 THEN state.tune_count ELSE @ - 1]
    IN  [state |-> prev, trace |-> play_current_tune(prev)]

\* vsidcontrolwidget.c:190-204, with "Speed" a registered resource.
ffwd_callback(speed) ==
    IF speed = 100 THEN FFWD_SPEED ELSE 100

\* vsidcontrolwidget.c:214-241
play_callback(state, speed) ==
    IF state.tune_current <= 0
    THEN LET started == [state EXCEPT !.tune_current = state.tune_default]
         IN  [state |-> started, speed |-> speed,
              trace |-> (IF state.psid_filename # NullString
                         THEN <<MachineCall("psid_load_file", 0)>>
                         ELSE <<>>)
                        \o <<MachineCall("psid_init_driver", 0),
                             MachineCall("machine_play_psid",
                                         started.tune_current),
                             MachineCall("machine_trigger_reset", 0),
                             MachineCall("ui_pause_disable", 0)>>]
    ELSE [state |-> state, speed |-> 100,
          trace |-> <<MachineCall("resources_set_int", 100)>>]

\* vsidcontrolwidget.c:257-266
stop_callback(state) ==
    [state |-> [state EXCEPT !.tune_current = -1],
     trace |-> <<MachineCall("machine_play_psid", -1),
                 MachineCall("machine_trigger_reset", 0)>>]

\* vsidcontrolwidget.c:365-397: the setters the PSID loader calls.
vsid_control_widget_set_tune_count(state, n) ==
    [state EXCEPT !.tune_count = n]

vsid_control_widget_set_tune_current(state, n) ==
    [state EXCEPT !.tune_current = n]

vsid_control_widget_set_tune_default(state, n) ==
    [state EXCEPT !.tune_default = n]

NoVsidCall == [op |-> "none", found |-> 0, trace |-> <<>>]

\* The VSID side while the other sides run.
VsidIdle ==
    /\ vsid_state = <<>>
    /\ Speed = 0
    /\ vsid_call = <<>>

(***************************************************************************)
(* The state machine.                                                      *)
(***************************************************************************)
\* A drive_t as the drive setup leaves it: no image, no buffers.
EmptyDrive ==
    [image |-> NULL,
     read_only |-> 0,
     attach_clk |-> 0,
     detach_clk |-> 0,
     attach_detach_clk |-> 0,
     ask_extend_disk_image |-> DRIVE_EXTEND_NEVER,
     GCR_image_loaded |-> 0,
     P64_image_loaded |-> 0,
     P64_dirty |-> 0,
     complicated_image_loaded |-> 0,
     gcr |-> [t \in Tracks |-> EmptyTrack]]

NoCall ==
    [op |-> "none", image |-> NULL, format |-> "none", unit |-> 0, drv |-> 0,
     ret |-> 0, stage |-> "none", trace |-> <<>>, drive_type |-> "none"]

Init ==
    /\ unit_type = UnitConfig
    /\ diskunit_clk = [dnr \in Dnrs |-> 0]
    /\ drives = [dnr \in Dnrs |-> [drv \in Drvs |-> EmptyDrive]]
    /\ image_refs = [image \in ImageIds |-> NoRefs]
    /\ last = NoCall
    /\ target \in Dnrs \X Drvs
    /\ SnapIdle
    /\ WidgetIdle
    /\ VsidIdle

\* The arguments the callers of a run pass: the unit of the target slot and
\* the unit numbers just outside the valid range; the drive of the target.
UnitInputs == {7, 8 + target[1], 8 + NUM_DISK_UNITS}
DrvInputs == {target[2]}

\* The images passed with a unit.  A call with an out-of-range unit returns
\* (driveimage.c:174-176, 236-238) before it reads anything of the image:
\* there one image stands for all.
ImageInputs(unit) ==
    IF UnitOutOfRange(unit) THEN {1} ELSE ImageIds

\* A caller attaches an image.
Attach ==
    /\ \E unit \in UnitInputs, drv \in DrvInputs :
       \E image \in ImageInputs(unit) :
       \E read \in IF AttachReachesRead(image, unit)
                    THEN ReadOutcomes ELSE {NoRead} :
          LET r == drive_image_attach(image, unit, drv, read)
          IN  /\ drives' = r.drives
              /\ image_refs' = r.image_refs
              /\ last' = [op |-> "attach", image |-> image,
                          format |-> image_type(image), unit |-> unit,
                          drv |-> drv, ret |-> r.ret, stage |-> r.stage,
                          trace |-> r.trace, drive_type |-> "none"]
    /\ UNCHANGED <<unit_type, diskunit_clk, target, snapvars,
                   widgetvars, vsidvars>>

\* A caller detaches an image.
Detach ==
    /\ \E unit \in UnitInputs, drv \in DrvInputs :
       \E image \in ImageInputs(unit) :
       \E write_ok \in IF DetachReachesWrite(image, unit, drv)
                        THEN BOOLEAN ELSE {TRUE} :
          LET r == drive_image_detach(image, unit, drv, write_ok)
          IN  /\ drives' = r.drives
              /\ last' = [op |-> "detach", image |-> image,
                          format |-> image_type(image), unit |-> unit,
                          drv |-> drv, ret |-> r.ret, stage |-> r.stage,
                          trace |-> r.trace, drive_type |-> "none"]
    /\ UNCHANGED <<unit_type, diskunit_clk, image_refs, target, snapvars,
                   widgetvars, vsidvars>>

\* The drive CPU of a unit runs: its clock advances.
Tick ==
    \E dnr \in {target[1]} :
        /\ diskunit_clk[dnr] < MaxClk
        /\ diskunit_clk' = [diskunit_clk EXCEPT ![dnr] = @ + 1]
        /\ last' = NoCall
        /\ UNCHANGED <<unit_type, drives, image_refs, target, snapvars,
                   widgetvars, vsidvars>>

\* The drive writes to a loaded P64 image: the flux data becomes dirty.
DriveWrite ==
    \E dnr \in Dnrs, drv \in Drvs :
        /\ drives[dnr][drv].P64_image_loaded # 0
        /\ drives[dnr][drv].P64_dirty = 0
        /\ drives' = [drives EXCEPT ![dnr][drv].P64_dirty = 1]
        /\ last' = NoCall
        /\ UNCHANGED <<unit_type, diskunit_clk, image_refs, target, snapvars,
                   widgetvars, vsidvars>>

Next == Attach \/ Detach \/ Tick \/ DriveWrite

Spec == Init /\ [][Next]_vars

(***************************************************************************)
(* Calls with a drive index outside the unit.  Neither entry point tests   *)
(* drv: diskunit_context[dnr]->drives[drv] (driveimage.c:179, 241) is then *)
(* a read past the end of the array and its value is undefined.            *)
(***************************************************************************)
\* The value a call that does not return leaves in the call record.
NO_RETURN == 1

\* What the read past the array yields: a pointer the process cannot
\* dereference (<<>>), or a pointer into memory the process owns, here the
\* drive_t of drive v of the unit (<<v>>), v the drive the run works with.
WildPointers == {<<>>} \cup {<<v>> : v \in DrvInputs}

\* The pointers that make a difference to a call: one that returns before
\* its first dereference of drive behaves the same with all of them.
WildInputs(derefs) == IF derefs THEN WildPointers ELSE {<<>>}

Fault ==
    [ret |-> NO_RETURN, stage |-> "fault", drives |-> drives,
     image_refs |-> image_refs, trace |-> <<>>]

\* drive_image_attach dereferences drive first at driveimage.c:185, after
\* the range test and the format gate.
AttachDerefs(image, unit) ==
    ~UnitOutOfRange(unit) /\ ~AttachRejects(image, unit - 8)

drive_image_attach_wild(image, unit, ptr, read) ==
    IF ~AttachDerefs(image, unit)
    THEN drive_image_attach(image, unit, NUM_DRIVES, read)
    ELSE IF ptr = <<>> THEN Fault
         ELSE drive_image_attach(image, unit, ptr[1], read)

\* drive_image_detach dereferences drive first at driveimage.c:244, right
\* after the range test.
DetachDerefs(unit) == ~UnitOutOfRange(unit)

drive_image_detach_wild(image, unit, ptr, write_ok) ==
    IF ~DetachDerefs(unit)
    THEN drive_image_detach(image, unit, NUM_DRIVES, write_ok)
    ELSE IF ptr = <<>>
         THEN [ret |-> NO_RETURN, stage |-> "fault", drives |-> drives,
               trace |-> <<>>]
         ELSE drive_image_detach(image, unit, ptr[1], write_ok)

\* The process runs until a call faults.
Running == last.stage # "fault"

AttachWild ==
    /\ Running
    /\ \E unit \in UnitInputs :
       \E image \in ImageInputs(unit) :
       \E ptr \in WildInputs(AttachDerefs(image, unit)) :
       \E read \in IF AttachReachesRead(image, unit) /\ ptr # <<>>
                    THEN ReadOutcomes ELSE {NoRead} :
          LET r == drive_image_attach_wild(image, unit, ptr, read)
          IN  /\ drives' = r.drives
              /\ image_refs' = r.image_refs
              /\ last' = [op |-> "attach", image |-> image,
                          format |-> image_type(image), unit |-> unit,
                          drv |-> NUM_DRIVES, ret |-> r.ret,
                          stage |-> r.stage, trace |-> r.trace,
                          drive_type |-> "none"]
    /\ UNCHANGED <<unit_type, diskunit_clk, target, snapvars,
                   widgetvars, vsidvars>>

DetachWild ==
    /\ Running
    /\ \E unit \in UnitInputs :
       \E image \in ImageInputs(unit) :
       \E ptr \in WildInputs(DetachDerefs(unit)) :
       \E write_ok \in IF ptr # <<>>
                           /\ DetachReachesWrite(image, unit, ptr[1])
                        THEN BOOLEAN ELSE {TRUE} :
          LET r == drive_image_detach_wild(image, unit, ptr, write_ok)
          IN  /\ drives' = r.drives
              /\ last' = [op |-> "detach", image |-> image,
                          format |-> image_type(image), unit |-> unit,
                          drv |-> NUM_DRIVES, ret |-> r.ret,
                          stage |-> r.stage, trace |-> r.trace,
                          drive_type |-> "none"]
    /\ UNCHANGED <<unit_type, diskunit_clk, image_refs, target, snapvars,
                   widgetvars, vsidvars>>

NextDrv ==
    \/ AttachWild
    \/ DetachWild
    \/ (Running /\ Attach)
    \/ (Running /\ Detach)
    \/ (Running /\ Tick)
    \/ (Running /\ DriveWrite)

SpecDrv == Init /\ [][NextDrv]_vars

(***************************************************************************)
(* The format check on its own: every drive model at one unit, every       *)
(* format as argument.                                                     *)
(***************************************************************************)
InitFormat ==
    /\ unit_type \in {[UnitConfig EXCEPT ![dnr] = type] :
                        dnr \in Dnrs, type \in DriveTypes}
    /\ diskunit_clk = [dnr \in Dnrs |-> 0]
    /\ drives = [dnr \in Dnrs |-> [drv \in Drvs |-> EmptyDrive]]
    /\ image_refs = [image \in ImageIds |-> NoRefs]
    /\ last = NoCall
    /\ target \in Dnrs \X Drvs
    /\ SnapIdle
    /\ WidgetIdle
    /\ VsidIdle

\* A caller asks whether the unit takes the format.
CheckFormat ==
    \E format \in Formats, dnr \in Dnrs :
        /\ last' = [NoCall EXCEPT !.op = "check", !.format = format,
                                  !.unit = dnr + 8,
                                  !.ret = drive_check_image_format(format, dnr)]
        /\ UNCHANGED <<unit_type, diskunit_clk, drives, image_refs, target,
                       snapvars, widgetvars, vsidvars>>

\* A caller asks for the drive model that takes the format.
TypeToDriveType ==
    \E format \in Formats :
        /\ last' = [NoCall EXCEPT
                        !.op = "type_to_drive_type", !.format = format,
                        !.drive_type = drive_image_type_to_drive_type(format)]
        /\ UNCHANGED <<unit_type, diskunit_clk, drives, image_refs, target,
                       snapvars, widgetvars, vsidvars>>

NextFormat == CheckFormat \/ TypeToDriveType

SpecFormat == InitFormat /\ [][NextFormat]_vars

(***************************************************************************)
(* The snapshot codec on its own.  A run starts with the machine at one of *)
(* the clocks, a container that holds no VIC-I module or one another       *)
(* version left, and the place where the container fails when it fails.    *)
(***************************************************************************)
InitSnapshot ==
    /\ unit_type = UnitConfig
    /\ diskunit_clk = [dnr \in Dnrs |-> 0]
    /\ drives = [dnr \in Dnrs |-> [drv \in Drvs |-> EmptyDrive]]
    /\ image_refs = [image \in ImageIds |-> NoRefs]
    /\ last = NoCall
    /\ target = <<0, 0>>
    /\ maincpu_clk \in Clocks
    /\ \E s \in MachineStates(maincpu_clk) :
           vic = s.vic /\ mem_ram = s.mem_ram
    /\ module \in {NoModule}
                  \cup {Foreign(v[1], v[2], maincpu_clk) :
                          v \in ForeignVersions}
    /\ snap_call = NoSnapCall
    /\ io_fault \in 1 .. NumWriteOps
    /\ WidgetIdle
    /\ VsidIdle

\* A restore that failed half way leaves a torn VIC: the machine is reset
\* before the next snapshot call.  Snapshot calls are made on the machine
\* states of the emulation.
Consistent ==
    [vic |-> vic, mem_ram |-> mem_ram] \in MachineStates(maincpu_clk)

SnapWriteOutcomes == {"ok", "create", "field", "close"}
SnapReadOutcomes == {"ok", "open", "field", "close"}

\* The machine writes its snapshot.
WriteModule ==
    /\ Consistent
    /\ \E outcome \in SnapWriteOutcomes :
       \E r \in {vic_snapshot_write_module(vic, mem_ram, maincpu_clk,
                                            module, outcome, io_fault)} :
              /\ module' = r.stored
              /\ snap_call' = [op |-> "write", outcome |-> outcome,
                               ret |-> r.ret, trace |-> r.trace]
    /\ UNCHANGED <<vic, mem_ram, maincpu_clk, io_fault, drivevars,
                   widgetvars, vsidvars>>

\* The machine reads the snapshot.
ReadModule ==
    /\ Consistent
    /\ \E outcome \in SnapReadOutcomes :
       \E r \in {vic_snapshot_read_module(vic, mem_ram, maincpu_clk,
                                           module, outcome, io_fault)} :
              /\ vic' = r.vic
              /\ mem_ram' = r.mem_ram
              /\ snap_call' = [op |-> "read", outcome |-> outcome,
                               ret |-> r.ret, trace |-> r.trace]
    /\ UNCHANGED <<maincpu_clk, module, io_fault, drivevars, widgetvars,
                   vsidvars>>

\* The emulation runs: the clock does not go back, and the VIC is in a
\* state that belongs to the clock.
Run ==
    /\ \E clk \in Clocks :
       \E s \in MachineStates(clk) :
          /\ clk >= maincpu_clk
          /\ <<clk, s.vic, s.mem_ram>> # <<maincpu_clk, vic, mem_ram>>
          /\ maincpu_clk' = clk
          /\ vic' = s.vic
          /\ mem_ram' = s.mem_ram
    /\ snap_call' = NoSnapCall
    /\ UNCHANGED <<module, io_fault, drivevars, widgetvars, vsidvars>>

NextSnapshot == WriteModule \/ ReadModule \/ Run

SpecSnapshot == InitSnapshot /\ [][NextSnapshot]_vars

(***************************************************************************)
(* The widgets on their own.  A run starts with the resource in one of its *)
(* states and no widget; one widget is made and then used.                 *)
(***************************************************************************)
InitWidget ==
    /\ unit_type = UnitConfig
    /\ diskunit_clk = [dnr \in Dnrs |-> 0]
    /\ drives = [dnr \in Dnrs |-> [drv \in Drvs |-> EmptyDrive]]
    /\ image_refs = [image \in ImageIds |-> NoRefs]
    /\ last = NoCall
    /\ target = <<0, 0>>
    /\ SnapIdle
    /\ resource \in Resources
    /\ widget = NoWidget
    /\ ui_call = NoUiCall
    /\ VsidIdle

\* The process runs until a call ends it.
Alive == ui_call.returned

\* The code makes a plain entry.
EntryNew ==
    /\ Alive
    /\ widget.kind = "none"
    /\ widget' = vice_gtk3_resource_entry_new(resource)
    /\ ui_call' = [NoUiCall EXCEPT !.op = "entry_new", !.ret = TRUE]
    /\ UNCHANGED <<resource, drivevars, snapvars, vsidvars>>

\* The code makes a full entry.
EntryFullNew ==
    /\ Alive
    /\ widget.kind = "none"
    /\ widget' = vice_gtk3_resource_entry_full_new(resource)
    /\ ui_call' = [NoUiCall EXCEPT !.op = "entry_full_new", !.ret = TRUE]
    /\ UNCHANGED <<resource, drivevars, snapvars, vsidvars>>

\* What lib_strdup can do in a call: the choice matters when it is given
\* NULL only.
StrdupInputs(given_null) ==
    IF given_null THEN LibStrdupNull ELSE {"returns_null"}

\* The code makes a browser that opens a file.
BrowserNew ==
    /\ Alive
    /\ widget.kind = "none"
    /\ \E title \in TitleInputs, callback \in Callbacks :
       \E on_null \in StrdupInputs(title = NullString) :
          LET r == vice_gtk3_resource_browser_new(resource, title, callback,
                                                  on_null)
          IN  /\ widget' = r.widget
              /\ ui_call' = [NoUiCall EXCEPT
                                !.op = "browser_new", !.arg = title,
                                !.ret = r.returns, !.returned = r.returns]
    /\ UNCHANGED <<resource, drivevars, snapvars, vsidvars>>

\* The code makes a browser that saves a file.
BrowserSaveNew ==
    /\ Alive
    /\ widget.kind = "none"
    /\ \E title \in TitleInputs, callback \in Callbacks :
       \E on_null \in StrdupInputs(title = NullString) :
          LET r == vice_gtk3_resource_browser_save_new(resource, title,
                                                       callback, on_null)
          IN  /\ widget' = r.widget
              /\ ui_call' = [NoUiCall EXCEPT
                                !.op = "browser_save_new", !.arg = title,
                                !.ret = r.returns, !.returned = r.returns]
    /\ UNCHANGED <<resource, drivevars, snapvars, vsidvars>>

\* The user presses a key in a plain entry: the entry takes it, and a
\* change of the text runs on_entry_changed.
EntryKey ==
    /\ Alive
    /\ widget.kind \in PlainKinds
    /\ \E key \in Keys, accept \in BOOLEAN :
          LET s == gtk_entry_set_text(widget, resource,
                                      KeyDefault(widget.text, key), accept)
          IN  /\ widget' = s.widget
              /\ resource' = s.res
              /\ ui_call' = [NoUiCall EXCEPT
                                !.op = "entry_key", !.arg = key,
                                !.trace = s.trace]
    /\ UNCHANGED <<drivevars, snapvars, vsidvars>>

\* The code sets the text of a plain entry.
EntrySet ==
    /\ Alive
    /\ widget.kind \in PlainKinds
    /\ \E new \in TextPointers, accept \in BOOLEAN :
          LET r == vice_gtk3_resource_entry_set(widget, resource, new, accept)
          IN  /\ widget' = r.widget
              /\ resource' = r.res
              /\ ui_call' = [NoUiCall EXCEPT
                                !.op = "entry_set", !.arg = new,
                                !.ret = r.ret, !.trace = r.trace]
    /\ UNCHANGED <<drivevars, snapvars, vsidvars>>

\* The code resets a plain entry.
EntryReset ==
    /\ Alive
    /\ widget.kind \in PlainKinds
    /\ \E accept \in BOOLEAN :
          LET r == vice_gtk3_resource_entry_reset(widget, resource, accept)
          IN  /\ widget' = r.widget
              /\ resource' = r.res
              /\ ui_call' = [NoUiCall EXCEPT
                                !.op = "entry_reset", !.ret = r.ret,
                                !.trace = r.trace]
    /\ UNCHANGED <<drivevars, snapvars, vsidvars>>

\* The user presses a key in a full entry: on_key_press_event runs, and the
\* entry takes the key when the handler has not.
FullKey ==
    /\ Alive
    /\ widget.kind \in FullKinds
    /\ \E key \in Keys, accept \in BOOLEAN :
          LET h == on_key_press_event(widget, resource, key, accept)
          IN  /\ widget' = IF h.ret THEN widget
                           ELSE [widget EXCEPT
                                    !.text = KeyDefault(@, key)]
              /\ resource' = h.res
              /\ ui_call' = [NoUiCall EXCEPT
                                !.op = "key_press", !.arg = key,
                                !.ret = h.ret, !.trace = h.trace]
    /\ UNCHANGED <<drivevars, snapvars, vsidvars>>

\* The full entry loses the focus.
FullFocusOut ==
    /\ Alive
    /\ widget.kind \in FullKinds
    /\ \E accept \in BOOLEAN :
          LET h == on_focus_out_event(widget, resource, accept)
          IN  /\ resource' = h.res
              /\ ui_call' = [NoUiCall EXCEPT
                                !.op = "focus_out", !.ret = h.ret,
                                !.trace = h.trace]
    /\ UNCHANGED <<widget, drivevars, snapvars, vsidvars>>

\* The code turns the auto-update of a full entry off.
FullDisableAutoUpdate ==
    /\ Alive
    /\ widget.kind \in FullKinds
    /\ widget' = vice_gtk3_resource_entry_full_disable_auto_update(widget)
    /\ ui_call' = [NoUiCall EXCEPT !.op = "disable_auto_update"]
    /\ UNCHANGED <<resource, drivevars, snapvars, vsidvars>>

\* The code sets a full entry.
FullSet ==
    /\ Alive
    /\ widget.kind \in FullKinds
    /\ \E new \in TextPointers, accept \in BOOLEAN :
          LET r == vice_gtk3_resource_entry_full_set(widget, resource, new,
                                                     accept)
          IN  /\ widget' = r.widget
              /\ resource' = r.res
              /\ ui_call' = [NoUiCall EXCEPT
                                !.op = "full_set", !.arg = new,
                                !.ret = r.ret, !.trace = r.trace]
    /\ UNCHANGED <<drivevars, snapvars, vsidvars>>

\* The code resets a full entry.
FullReset ==
    /\ Alive
    /\ widget.kind \in FullKinds
    /\ \E accept \in BOOLEAN :
          LET r == vice_gtk3_resource_entry_full_reset(widget, resource,
                                                       accept)
          IN  /\ widget' = r.widget
              /\ resource' = r.res
              /\ ui_call' = [NoUiCall EXCEPT
                                !.op = "full_reset", !.ret = r.ret,
                                !.trace = r.trace]
    /\ UNCHANGED <<drivevars, snapvars, vsidvars>>

\* The user chooses a file in the dialog of a browser, or cancels it.  What
\* the resource does with the original value matters only after it refused
\* the name, and what the memory held only where nothing was stored.
BrowseChosen ==
    /\ Alive
    /\ widget.kind = "browser"
    /\ \E filename \in TextPointers, accept \in BOOLEAN :
       \E restore \in IF accept \/ filename = NullString
                       THEN {TRUE} ELSE BOOLEAN :
          LET r == browse_filename_callback(widget, resource, filename,
                                            accept, restore, "NULL")
          IN  /\ widget' = r.widget
              /\ resource' = r.res
              /\ ui_call' = [NoUiCall EXCEPT
                                !.op = "browse_chosen", !.arg = filename,
                                !.returned = r.returned, !.trace = r.trace]
    /\ UNCHANGED <<drivevars, snapvars, vsidvars>>

\* The same in the dialog of a save browser.
SaveChosen ==
    /\ Alive
    /\ widget.kind = "browser_save"
    /\ \E filename \in TextPointers, accept \in BOOLEAN :
       \E restore \in IF accept \/ filename = NullString
                       THEN {TRUE} ELSE BOOLEAN :
       \E garbage \in IF accept /\ filename # NullString
                       THEN Garbage ELSE {"NULL"} :
          LET r == save_filename_callback(widget, resource, filename,
                                          accept, restore, garbage)
          IN  /\ widget' = r.widget
              /\ resource' = r.res
              /\ ui_call' = [NoUiCall EXCEPT
                                !.op = "save_chosen", !.arg = filename,
                                !.returned = r.returned, !.trace = r.trace]
    /\ UNCHANGED <<drivevars, snapvars, vsidvars>>

\* The code sets the value of a browser.
BrowserSet ==
    /\ Alive
    /\ widget.kind \in {"browser", "browser_save"}
    /\ \E new \in TextPointers, accept \in BOOLEAN :
       \E restore \in IF accept THEN {TRUE} ELSE BOOLEAN :
          LET r == vice_gtk3_resource_browser_set(widget, resource, new,
                                                  accept, restore)
          IN  /\ widget' = r.widget
              /\ resource' = r.res
              /\ ui_call' = [NoUiCall EXCEPT
                                !.op = "browser_set", !.arg = new,
                                !.ret = r.ret, !.trace = r.trace]
    /\ UNCHANGED <<drivevars, snapvars, vsidvars>>

NextWidget ==
    \/ EntryNew
    \/ EntryFullNew
    \/ BrowserNew
    \/ BrowserSaveNew
    \/ EntryKey
    \/ EntrySet
    \/ EntryReset
    \/ FullKey
    \/ FullFocusOut
    \/ FullDisableAutoUpdate
    \/ FullSet
    \/ FullReset
    \/ BrowseChosen
    \/ SaveChosen
    \/ BrowserSet

SpecWidget == InitWidget /\ [][NextWidget]_vars

(***************************************************************************)
(* The VSID controls on their own.  A run starts with a PSID file loaded   *)
(* and its default tune playing at normal speed.                           *)
(***************************************************************************)
\* What the PSID loader hands to the setters: the number of tunes of the
\* file and its default tune.
Loads == {load \in (1 .. MaxTunes) \X (1 .. MaxTunes) : load[2] <= load[1]}

Loaded(state, load) ==
    vsid_control_widget_set_tune_default(
        vsid_control_widget_set_tune_current(
            vsid_control_widget_set_tune_count(state, load[1]), load[2]),
        load[2])

InitVsid ==
    /\ unit_type = UnitConfig
    /\ diskunit_clk = [dnr \in Dnrs |-> 0]
    /\ drives = [dnr \in Dnrs |-> [drv \in Drvs |-> EmptyDrive]]
    /\ image_refs = [image \in ImageIds |-> NoRefs]
    /\ last = NoCall
    /\ target = <<0, 0>>
    /\ SnapIdle
    /\ WidgetIdle
    /\ \E load \in Loads, file \in {NullString, String("tune.sid")} :
           vsid_state = Loaded([tune_count |-> 0, tune_current |-> 0,
                                tune_default |-> 0, psid_filename |-> file],
                               load)
    /\ Speed = 100
    /\ vsid_call = NoVsidCall

\* Another PSID file is loaded.
LoadPsid ==
    /\ \E load \in Loads : vsid_state' = Loaded(vsid_state, load)
    /\ vsid_call' = [NoVsidCall EXCEPT !.op = "load",
                                       !.found = vsid_state.tune_current]
    /\ UNCHANGED <<Speed, drivevars, snapvars, widgetvars>>

\* The buttons.
PressNext ==
    /\ \E r \in {next_tune_callback(vsid_state)} :
           /\ vsid_state' = r.state
           /\ vsid_call' = [op |-> "next", found |-> vsid_state.tune_current,
                            trace |-> r.trace]
    /\ UNCHANGED <<Speed, drivevars, snapvars, widgetvars>>

PressPrev ==
    /\ \E r \in {prev_tune_callback(vsid_state)} :
           /\ vsid_state' = r.state
           /\ vsid_call' = [op |-> "prev", found |-> vsid_state.tune_current,
                            trace |-> r.trace]
    /\ UNCHANGED <<Speed, drivevars, snapvars, widgetvars>>

PressPlay ==
    /\ \E r \in {play_callback(vsid_state, Speed)} :
           /\ vsid_state' = r.state
           /\ Speed' = r.speed
           /\ vsid_call' = [op |-> "play", found |-> vsid_state.tune_current,
                            trace |-> r.trace]
    /\ UNCHANGED <<drivevars, snapvars, widgetvars>>

PressStop ==
    /\ \E r \in {stop_callback(vsid_state)} :
           /\ vsid_state' = r.state
           /\ vsid_call' = [op |-> "stop", found |-> vsid_state.tune_current,
                            trace |-> r.trace]
    /\ UNCHANGED <<Speed, drivevars, snapvars, widgetvars>>

PressFfwd ==
    /\ Speed' = ffwd_callback(Speed)
    /\ vsid_call' = [op |-> "ffwd", found |-> vsid_state.tune_current,
                     trace |-> <<MachineCall("resources_set_int",
                                             ffwd_callback(Speed))>>]
    /\ UNCHANGED <<vsid_state, drivevars, snapvars, widgetvars>>

NextVsid ==
    \/ LoadPsid
    \/ PressNext
    \/ PressPrev
    \/ PressPlay
    \/ PressStop
    \/ PressFfwd

SpecVsid == InitVsid /\ [][NextVsid]_vars

(***************************************************************************)
(* Properties.                                                             *)
(***************************************************************************)
ValidUnit(unit) == unit >= 8 /\ unit < 8 + NUM_DISK_UNITS

\* The drive a call with these arguments works on.
DriveOf(table, call) == table[call.unit - 8][call.drv]

NoTrackBuffer(drive) ==
    \A t \in Tracks : drive.gcr[t].data = 0 /\ drive.gcr[t].size = 0

\* The position of event e in a trace, 0 when it is not there.
Position(trace, e) ==
    IF \E i \in 1 .. Len(trace) : trace[i] = e
    THEN CHOOSE i \in 1 .. Len(trace) : trace[i] = e
    ELSE 0

\* The compatibility table of formats and drive models.
GcrModels ==
    {"1540", "1541", "1541II", "1551", "1570", "1571", "1571CR", "2031",
     "2040", "3040", "4040"}

CompatTable ==
    ({"D64", "G64", "P64", "D67"} \X GcrModels)
    \cup ({"G71", "D71"} \X {"1571", "1571CR"})
    \cup ({"D81"} \X {"1581", "2000", "4000"})
    \cup ({"D80", "D82"} \X {"1001", "8050", "8250"})
    \cup ({"D90"} \X {"9000"})
    \cup ({"D1M", "D2M", "D4M"} \X {"2000", "4000"})
    \cup ({"DHD"} \X {"CMDHD"})

\* C1: drive_check_image_format returns 0 exactly for the pairs of format and
\* configured drive model in the compatibility table, and -1 for every
\* other pair and for every format outside the table.
C1_CheckMatchesTable ==
    last.op = "check" =>
        /\ last.ret \in {0, -1}
        /\ last.ret = 0 <=>
               <<last.format, unit_type[last.unit - 8]>> \in CompatTable

C1_Witness ==
    /\ last.op = "check"
    /\ last.format = "D82"
    /\ unit_type[last.unit - 8] = "1001"
    /\ last.ret = 0

\* The attachment-state fields of a drive.
AttachmentState(drive) ==
    <<drive.image, drive.read_only, drive.attach_clk, drive.attach_detach_clk,
      drive.ask_extend_disk_image, drive.GCR_image_loaded,
      drive.P64_image_loaded, drive.P64_dirty, drive.complicated_image_loaded>>

\* C2: whenever drive_image_attach returns failure, every attachment-state
\* field of every drive has the value it had before the call.
C2_FailedAttachChangesNothing ==
    [][(last'.op = "attach" /\ last'.ret = -1) =>
          \A dnr \in Dnrs, drv \in Drvs :
              AttachmentState(drives'[dnr][drv])
                  = AttachmentState(drives[dnr][drv])]_vars

\* C3: drive_image_attach with a format drive_check_image_format rejects for
\* the unit's drive model returns -1 and modifies no field of any drive nor
\* of the image, whether the drive was empty or held an image.
C3_RejectedFormatChangesNothing ==
    [][(/\ last'.op = "attach"
        /\ ValidUnit(last'.unit)
        /\ drive_check_image_format(last'.format, last'.unit - 8) < 0) =>
          /\ last'.ret = -1
          /\ drives' = drives
          /\ image_refs' = image_refs]_vars

C3_Witness ==
    /\ last.op = "attach"
    /\ ValidUnit(last.unit)
    /\ drive_check_image_format(last.format, last.unit - 8) < 0
    /\ last.ret = -1
    /\ DriveOf(drives, last).image # NULL

\* C4: in every reachable state, a drive that holds an image has exactly one
\* of GCR_image_loaded and P64_image_loaded set, and a drive that holds none
\* has both clear.
C4_LoadedFlagsMatchImage ==
    \A dnr \in Dnrs, drv \in Drvs :
        LET drive == drives[dnr][drv]
        IN  IF drive.image # NULL
            THEN drive.GCR_image_loaded + drive.P64_image_loaded = 1
            ELSE drive.GCR_image_loaded = 0 /\ drive.P64_image_loaded = 0

\* C5: drive_image_attach on a drive that already holds an image is rejected
\* and leaves the image, the flags and the track buffers as they were.
C5_AttachOnAttachedRejected ==
    [][(/\ last'.op = "attach"
        /\ ValidUnit(last'.unit)
        /\ DriveOf(drives, last').image # NULL) =>
          /\ last'.ret = -1
          /\ DriveOf(drives', last') = DriveOf(drives, last')]_vars

\* C6: after drive_image_attach succeeds on a drive that held no image,
\* P64_image_loaded is set exactly when the format is P64, GCR_image_loaded
\* exactly when it is not, P64_dirty is clear for P64, and
\* complicated_image_loaded tells whether the format is P64, G64 or G71.
C6_FlagsAfterAttach ==
    [][(/\ last'.op = "attach"
        /\ last'.ret = 0
        /\ DriveOf(drives, last').image = NULL) =>
          LET drive == DriveOf(drives', last')
              p64 == last'.format = "P64"
          IN  /\ (drive.P64_image_loaded = 1) <=> p64
              /\ (drive.GCR_image_loaded = 1) <=> ~p64
              /\ p64 => drive.P64_dirty = 0
              /\ (drive.complicated_image_loaded = 1)
                     <=> last'.format \in {"P64", "G64", "G71"}]_vars

\* C7: after drive_image_detach returns success both loaded flags are clear,
\* read_only is 0, the drive holds no image and every track buffer has no
\* data and size 0.
C7_DetachLeavesEmpty ==
    (last.op = "detach" /\ last.ret = 0) =>
        LET drive == DriveOf(drives, last)
        IN  /\ drive.GCR_image_loaded = 0
            /\ drive.P64_image_loaded = 0
            /\ drive.read_only = 0
            /\ drive.image = NULL
            /\ NoTrackBuffer(drive)

C7_Witness ==
    /\ last.op = "detach"
    /\ last.ret = 0
    /\ DriveOf(drives, last).complicated_image_loaded = 1
    /\ \E image \in ImageIds : image_refs[image].gcr # <<>>

\* C8: a drive_image_detach called with P64_image_loaded and P64_dirty set
\* whose disk_image_write_p64_image fails still returns 0 and tears down
\* completely: P64_dirty and P64_image_loaded clear (so that no later detach
\* of this drive takes the P64 write-back again), no image, no track buffer.
C8_FailedWritebackStillDetaches ==
    [][(/\ last'.op = "detach"
        /\ ValidUnit(last'.unit)
        /\ DriveOf(drives, last').P64_image_loaded = 1
        /\ DriveOf(drives, last').P64_dirty = 1
        /\ Position(last'.trace, "log_error") > 0) =>
          LET drive == DriveOf(drives', last')
          IN  /\ last'.ret = 0
              /\ drive.P64_dirty = 0
              /\ drive.P64_image_loaded = 0
              /\ drive.image = NULL
              /\ NoTrackBuffer(drive)]_vars

C8_Witness ==
    /\ last.op = "detach"
    /\ last.ret = 0
    /\ Position(last.trace, "write_p64_image") > 0
    /\ Position(last.trace, "log_error") > 0

\* C9: when disk_image_read_image fails inside drive_image_attach, attach
\* returns -1, the drive holds no image afterwards, and GCR_image_loaded,
\* P64_image_loaded and complicated_image_loaded keep their values.
C9_FailedReadClearsImage ==
    [][(last'.op = "attach" /\ last'.stage = "read") =>
          LET before == DriveOf(drives, last')
              after == DriveOf(drives', last')
          IN  /\ last'.ret = -1
              /\ after.image = NULL
              /\ after.GCR_image_loaded = before.GCR_image_loaded
              /\ after.P64_image_loaded = before.P64_image_loaded
              /\ after.complicated_image_loaded
                     = before.complicated_image_loaded]_vars

C9_Witness ==
    /\ last.op = "attach"
    /\ last.stage = "read"
    /\ last.ret = -1
    /\ DriveOf(drives, last).image = NULL

\* C10: in every reachable state a drive that holds no image has no track
\* buffer allocated, and drive_image_detach frees the track buffers before
\* it clears the image reference.
C10_NoBufferWithoutImage ==
    /\ \A dnr \in Dnrs, drv \in Drvs :
           drives[dnr][drv].image = NULL => NoTrackBuffer(drives[dnr][drv])
    /\ (last.op = "detach" /\ last.ret = 0) =>
           /\ Position(last.trace, "free_tracks") > 0
           /\ Position(last.trace, "free_tracks")
                  < Position(last.trace, "image_null")

\* C11: drive_image_detach returns failure only when the unit is out of
\* range, or the drive holds an image and the format of the image passed is
\* none of D64, D67, D71, G64, G71, P64; a failing call writes nothing back,
\* frees no track buffer and changes no drive field.
C11_DetachFailsOnlyBeforeTeardown ==
    [][last'.op = "detach" =>
          LET fails ==
                  \/ ~ValidUnit(last'.unit)
                  \/ /\ DriveOf(drives, last').image # NULL
                     /\ last'.format
                            \notin {"D64", "D67", "D71", "G64", "G71", "P64"}
          IN  /\ last'.ret \in {0, -1}
              /\ (last'.ret = -1) <=> fails
              /\ last'.ret = -1 =>
                     /\ drives' = drives
                     /\ image_refs' = image_refs
                     /\ last'.trace = <<>>]_vars

C11_Witness ==
    /\ last.op = "detach"
    /\ last.ret = -1
    /\ ValidUnit(last.unit)
    /\ DriveOf(drives, last).image # NULL
    /\ last.format = "D81"

\* C12: drive_image_attach and drive_image_detach called with a unit below 8
\* or from 8 + NUM_DISK_UNITS on return -1 and leave every drive of every
\* unit as it was; called with a unit inside the range they get past the
\* range test, work with the clock of unit index unit - 8 and leave the
\* drives of every other unit as they were.
C12_UnitRange ==
    [][last'.op \in {"attach", "detach"} =>
          IF ~ValidUnit(last'.unit)
          THEN /\ last'.ret = -1
               /\ drives' = drives
               /\ image_refs' = image_refs
          ELSE /\ \A dnr \in Dnrs \ {last'.unit - 8} :
                      drives'[dnr] = drives[dnr]
               /\ (last'.op = "attach" /\ last'.ret = 0) =>
                      DriveOf(drives', last').attach_clk
                          = diskunit_clk[last'.unit - 8]
               /\ (last'.op = "detach" /\ last'.ret = 0) =>
                      DriveOf(drives', last').detach_clk
                          = diskunit_clk[last'.unit - 8]
               /\ (last'.op = "detach"
                      /\ DriveOf(drives, last').image = NULL) =>
                      last'.ret = 0]_vars

C12_Witness ==
    /\ last.op = "detach"
    /\ last.unit = 8 + NUM_DISK_UNITS - 1
    /\ last.ret = 0
    /\ DriveOf(drives, last).detach_clk = MaxClk
    /\ \A dnr \in Dnrs \ {last.unit - 8} : diskunit_clk[dnr] = 0

\* C13: drive_image_attach and drive_image_detach called with a drive index
\* that selects none of the drives of the unit return -1 and touch no drive
\* state.
C13_BadDriveIndexRejected ==
    [][(last'.op \in {"attach", "detach"} /\ last'.drv \notin Drvs) =>
          /\ last'.ret = -1
          /\ drives' = drives
          /\ image_refs' = image_refs]_vars

\* C14: in every reachable state complicated_image_loaded of a drive is set
\* exactly when the drive holds an image of format P64, G64 or G71; it is
\* clear whenever no image is attached.
C14_ComplicatedMatchesImage ==
    \A dnr \in Dnrs, drv \in Drvs :
        LET drive == drives[dnr][drv]
        IN  (drive.complicated_image_loaded = 1) <=>
                /\ drive.image # NULL
                /\ image_type(drive.image) \in {"P64", "G64", "G71"}

\* The drive model the claim names for each format.
DriveTypeTable ==
    [format \in Formats |->
        IF format \in {"G64", "P64", "D64"} THEN "1541II"
        ELSE IF format \in {"G71", "D71"} THEN "1571"
        ELSE IF format = "D81" THEN "1581"
        ELSE IF format \in {"D1M", "D2M"} THEN "2000"
        ELSE IF format = "D4M" THEN "4000"
        ELSE IF format = "D67" THEN "2040"
        ELSE IF format = "D80" THEN "8050"
        ELSE IF format = "D82" THEN "8250"
        ELSE IF format = "D90" THEN "9000"
        ELSE IF format = "DHD" THEN "CMDHD"
        ELSE "NONE"]

\* C15: drive_image_type_to_drive_type is a lookup that depends on the format
\* alone: 1541-II for G64, P64, D64; 1571 for G71, D71; 1581 for D81; 2000
\* for D1M, D2M; 4000 for D4M; 2040 for D67; 8050 for D80; 8250 for D82; 9000
\* for D90; CMDHD for DHD; DRIVE_TYPE_NONE for every other format, whatever
\* the drive models of the units.
C15_TypeToDriveTypeTable ==
    last.op = "type_to_drive_type" =>
        last.drive_type = DriveTypeTable[last.format]

C15_Witness ==
    /\ last.op = "type_to_drive_type"
    /\ last.format = "D4M"
    /\ last.drive_type = "4000"
    /\ unit_type # UnitConfig

\* How often a routine made a call.
CountCalls(trace, call) ==
    Cardinality({i \in 1 .. Len(trace) : trace[i].call = call})

\* The VIC-I module the last read opened.
Opened ==
    /\ snap_call.op = "read"
    /\ snap_call.outcome # "open"
    /\ module.name = snap_module_name

\* C16: vic_snapshot_read_module returns -1 for every module whose version is
\* strictly older than (0, 4); it then reads no field, changes no member of
\* vic, no colour RAM byte and no register, and closes the module.
C16_OlderVersionRejected ==
    [][(/\ snap_call'.op = "read"
        /\ snap_call'.outcome # "open"
        /\ module.name = snap_module_name
        /\ \/ module.major < 0
           \/ (module.major = 0 /\ module.minor < 4)) =>
          /\ snap_call'.ret = -1
          /\ vic' = vic
          /\ mem_ram' = mem_ram
          /\ \A i \in 1 .. Len(snap_call'.trace) :
                 snap_call'.trace[i].call
                     \notin Readers \cup {"vic_store"}
          /\ CountCalls(snap_call'.trace, "snapshot_module_close") = 1]_vars

C16_Witness ==
    /\ Opened
    /\ module.major = 0
    /\ module.minor = 3
    /\ snap_call.ret = -1
    /\ vic = VicReset(maincpu_clk)
    /\ maincpu_clk > 0

\* C17: vic_snapshot_read_module rejects a module whose major version is
\* newer than SNAP_MAJOR, and vic_snapshot_write_module stamps every module
\* it creates with (0, 4).
C17_NewerMajorRejected ==
    /\ (Opened /\ module.major > SNAP_MAJOR) => snap_call.ret = -1
    /\ (snap_call.op = "write" /\ snap_call.outcome # "create") =>
           module.major = 0 /\ module.minor = 4

\* A module the last write produced whole and without error, read back by
\* the last call at the clock it was written at with a container that
\* works.
RoundTrip ==
    /\ Opened
    /\ snap_call.outcome = "ok"
    /\ module.from_writer
    /\ module.write_ret = 0
    /\ module.clk = maincpu_clk

\* The values each kind of field holds.
InDomain(v) ==
    /\ \A i \in 1 .. Len(WriteFields) :
           LET x == v[WriteFields[i][1]]
               kind == WriteFields[i][2]
           IN  CASE kind = "B" -> x \in 0 .. 255
                 [] kind = "W" -> x \in 0 .. 65535
                 [] OTHER -> TRUE
    /\ \A i \in RegIndex : v["regs"][i] \in 0 .. 255

\* C18: for every VIC state whose values fit the width they are serialized
\* with, vic_snapshot_write_module followed by vic_snapshot_read_module at the
\* same machine clock succeeds and restores every serialized member, the
\* colour RAM, the registers and the raster state; the read consumes the
\* kinds of value in the order the write produced them, and the module
\* passes the version test.
C18_RoundTrip ==
    (RoundTrip /\ InDomain(module.vic)) =>
        /\ snap_call.ret = 0
        /\ \A f \in VicKeys : vic[f] = module.vic[f]
        /\ mem_ram = module.mem_ram
        /\ Kinds(snap_call.trace, Readers) = module.layout
        /\ ~snapshot_version_is_smaller(module.major, module.minor, 0, 4)

C18_Witness ==
    /\ RoundTrip
    /\ snap_call.ret = 0
    /\ module.vic = VicBusy(maincpu_clk)
    /\ vic = VicBusy(maincpu_clk)
    /\ mem_ram = ColourBusy

Rep(kind, n) == [i \in 1 .. n |-> kind]

\* The bytes a sequence of kinds takes, the block at 0x400 bytes and the
\* raster state at the one byte it has in the model.
RECURSIVE LayoutBytes(_)
LayoutBytes(layout) ==
    IF layout = <<>> THEN 0
    ELSE LayoutBytes(Tail(layout))
         + CASE Head(layout) = "B" -> 1
             [] Head(layout) = "W" -> 2
             [] Head(layout) = "DW" -> 4
             [] Head(layout) = "CLOCK" -> 8
             [] Head(layout) = "BA" -> 1024
             [] Head(layout) = "RASTER" -> 1

\* The sequence with n doublewords after the three words.
VicLayout(n) ==
    Rep("DW", 2) \o <<"CLOCK", "B">> \o Rep("W", 3) \o Rep("DW", n)
    \o Rep("B", 2) \o Rep("DW", 3) \o <<"CLOCK", "B", "BA">>
    \o Rep("B", 16) \o <<"RASTER">>

\* A write that returned success.
Written == snap_call.op = "write" /\ snap_call.ret = 0

\* C19 as amended: the values written after the header are exactly 2
\* doublewords, 1 clock, 1 byte, 3 words, 9 doublewords, 2 bytes, 3
\* doublewords (the int members of the light pen), 1 clock, 1 byte, one
\* block of 0x400 bytes, 16 bytes, then the raster state.
C19_FieldSequence ==
    Written =>
        /\ Kinds(snap_call.trace, Writers) = VicLayout(9)
        /\ Len(module.data) = LayoutBytes(VicLayout(9))

C19_Witness ==
    /\ Written
    /\ module.vic = VicBusy(maincpu_clk)
    /\ SubSeq(module.data, 1, 4) = <<1, 0, 0, 0>>

\* C19 as claimed: 8 doublewords after the three words.
C19_FieldSequenceClaimed ==
    Written =>
        /\ Kinds(snap_call.trace, Writers) = VicLayout(8)
        /\ Len(module.data) = LayoutBytes(VicLayout(8))

\* The places of the failed writes in a record of calls.
FailedWrites(trace) ==
    {i \in 1 .. Len(trace) :
        trace[i].call \in Writers /\ trace[i].ret < 0}

\* C20: in vic_snapshot_write_module the first write that fails is the last:
\* no field, colour RAM block, register or raster state is written after
\* it, the module is closed and the function returns -1; the function
\* returns success only when every write succeeded.
C20_FirstFailedWriteAborts ==
    (snap_call.op = "write" /\ snap_call.outcome # "create") =>
        LET trace == snap_call.trace
            failed == FailedWrites(trace)
        IN  /\ failed # {} =>
                   /\ snap_call.ret = -1
                   /\ \A i \in failed :
                          /\ i = Len(trace) - 1
                          /\ trace[i + 1].call = "snapshot_module_close"
                   /\ Len(module.data)
                          = LayoutBytes(Kinds(trace, Writers))
            /\ snap_call.ret = 0 =>
                   /\ failed = {}
                   /\ Len(Kinds(trace, Writers)) = NumWriteOps
            /\ CountCalls(trace, "snapshot_module_close") = 1

C20_Witness ==
    /\ snap_call.op = "write"
    /\ snap_call.outcome = "field"
    /\ io_fault = Len(WriteFields) + 1
    /\ snap_call.ret = -1
    /\ Len(module.data) = LayoutBytes(Kinds(snap_call.trace, Writers))
    /\ Len(Kinds(snap_call.trace, Writers)) = Len(WriteFields)

\* The restored raster position is the one the machine clock stands at.
TimingConsistent ==
    /\ vic["raster_cycle"] = VIC_RASTER_CYCLE(maincpu_clk)
    /\ vic["raster_line"] = VIC_RASTER_Y(maincpu_clk)

\* The last read got every scalar, the colour RAM and every register.
Restored ==
    /\ Opened
    /\ Len(Kinds(snap_call.trace, {"SMR"})) = NumReadOps

\* C21: vic_snapshot_read_module returns -1 whenever the restored
\* raster_cycle differs from VIC_RASTER_CYCLE(maincpu_clk) or the restored
\* raster_line differs from VIC_RASTER_Y(maincpu_clk): it then logs the
\* error, reads no raster state and closes the module; it never returns
\* success with a restored raster position that does not belong to the
\* machine clock.
C21_TimingMismatchFails ==
    /\ (Restored /\ ~TimingConsistent) =>
           /\ snap_call.ret = -1
           /\ CountCalls(snap_call.trace, "log_error") = 1
           /\ CountCalls(snap_call.trace, "raster_snapshot_read") = 0
           /\ CountCalls(snap_call.trace, "snapshot_module_close") = 1
    /\ (snap_call.op = "read" /\ snap_call.ret = 0) => TimingConsistent

C21_Witness ==
    /\ Restored
    /\ snap_call.outcome = "ok"
    /\ snap_call.ret = -1
    /\ module.from_writer
    /\ module.write_ret = 0
    /\ vic["raster_cycle"] = VIC_RASTER_CYCLE(maincpu_clk)
    /\ vic["raster_line"] = 0
    /\ VIC_RASTER_Y(maincpu_clk) = 300

\* A title is given when the pointer is not NULL and the string not empty.
TitleGiven(title) == title # NullString /\ title[1] # ""

\* C22: vice_gtk3_resource_browser_new and vice_gtk3_resource_browser_save_new
\* return with the caller's browser_title stored as the title of the file
\* dialog when a title is given, and with "Select file" stored when no title
\* is given.
C22_TitleStored ==
    ui_call.op \in {"browser_new", "browser_save_new"} =>
        /\ ui_call.returned
        /\ TitleGiven(ui_call.arg) => widget.browser_title = ui_call.arg
        /\ ui_call.arg = NullString => widget.browser_title = SelectFile

\* How often a routine called resources_set_string.
SetCalls(trace) == CountCalls(trace, "resources_set_string")

FullEvents == {"key_press", "focus_out"}

\* C23: in a full entry a key other than Enter never sets the resource; a
\* key press or a focus-out sets it only when the key is Enter or the focus
\* is lost, auto-update is on and the text differs from the value of the
\* resource; once auto-update is off it stays off, and neither Enter nor
\* focus-out sets the resource.
C23_FullEntrySetsOnCommitOnly ==
    [][/\ (ui_call'.op = "key_press" /\ ui_call'.arg # "Return") =>
              /\ SetCalls(ui_call'.trace) = 0
              /\ resource' = resource
       /\ (ui_call'.op \in FullEvents /\ SetCalls(ui_call'.trace) = 0) =>
              resource' = resource
       /\ (ui_call'.op \in FullEvents /\ SetCalls(ui_call'.trace) > 0) =>
              /\ widget.auto_update
              /\ \/ resource.value = NullString
                 \/ widget.text # resource.value[1]
       /\ (widget.kind \in FullKinds /\ ~widget.auto_update) =>
              /\ ~widget'.auto_update
              /\ ui_call'.op \in FullEvents =>
                     /\ SetCalls(ui_call'.trace) = 0
                     /\ resource' = resource]_vars

C23_Witness ==
    /\ ui_call.op = "key_press"
    /\ ui_call.arg = "Return"
    /\ ui_call.ret
    /\ SetCalls(ui_call.trace) = 1
    /\ resource.value = String(widget.text)
    /\ widget.created.value # resource.value
    /\ Len(widget.text) = MaxTextLen

\* The text an argument of vice_gtk3_resource_entry_full_set stands for.
TextOf(new) == IF new = NullString THEN <<>> ELSE new[1]

\* The last call set the resource.
ResourceSet(trace) ==
    \E i \in 1 .. Len(trace) :
        trace[i].call = "resources_set_string" /\ trace[i].ret = 0

\* C24: vice_gtk3_resource_entry_full_set(entry, new) returns TRUE when
\* setting the resource succeeds, and the resource and the text of the entry
\* are then both new, NULL taken as the empty string; it returns FALSE when
\* setting the resource fails, and the text of the entry is then as it was.
C24_FullSet ==
    [][ui_call'.op = "full_set" =>
          IF ResourceSet(ui_call'.trace)
          THEN /\ ui_call'.ret
               /\ resource'.value = String(TextOf(ui_call'.arg))
               /\ widget'.text = TextOf(ui_call'.arg)
          ELSE /\ ~ui_call'.ret
               /\ widget'.text = widget.text]_vars

C24_Witness ==
    /\ ui_call.op = "full_set"
    /\ ~ui_call.ret
    /\ resource.known
    /\ widget.text # TextOf(ui_call.arg)
    /\ ui_call.arg = NullString

\* The value the resource had when the widget was made, the empty string
\* when it could not be read.
CreatedText ==
    IF widget.created.known /\ widget.created.value # NullString
    THEN widget.created.value[1]
    ELSE <<>>

\* C25: whenever vice_gtk3_resource_entry_full_reset returns TRUE, the
\* resource and the text of the entry both are the value the resource had
\* when the widget was made, the empty string when it could not be read
\* then.
C25_FullResetRestores ==
    (ui_call.op = "full_reset" /\ ui_call.ret) =>
        /\ resource.value = String(CreatedText)
        /\ widget.text = CreatedText

C25_Witness ==
    /\ ui_call.op = "full_reset"
    /\ ui_call.ret
    /\ ~widget.auto_update
    /\ Len(CreatedText) = MaxTextLen
    /\ widget.text = CreatedText
    /\ resource.value = String(CreatedText)

\* C26: whenever vice_gtk3_resource_entry_reset returns TRUE, the text of the
\* plain entry is the value the resource had when the widget was made.
C26_ResetRestoresText ==
    (ui_call.op = "entry_reset" /\ ui_call.ret) =>
        widget.text = CreatedText

\* C27: every format that passes drive_check_image_format for the drive model
\* of the unit is one drive_image_attach wires up: no attach that got past
\* the format gate, and so has written read_only, attach_clk and
\* ask_extend_disk_image, returns from the default case of the switch.
C27_CheckedFormatsWirable ==
    (/\ last.op = "attach"
     /\ ValidUnit(last.unit)
     /\ drive_check_image_format(last.format, last.unit - 8) = 0) =>
        /\ AttachWirable(last.format)
        /\ last.stage # "wiring"

\* How often an effect occurs in a trace.
Occurrences(trace, e) ==
    Cardinality({i \in 1 .. Len(trace) : trace[i] = e})

\* C28: a drive_image_detach that gets past the range and format tests takes
\* exactly one write-back path, and takes it before it frees the track
\* buffers: disk_image_write_p64_image exactly when P64_image_loaded and
\* P64_dirty are both set at the call, P64_dirty being clear afterwards
\* whether the write succeeded or not, and drive_gcr_data_writeback
\* otherwise.
C28_OneWritebackBeforeFree ==
    [][(last'.op = "detach" /\ last'.ret = 0) =>
          LET before == DriveOf(drives, last')
              p64 == before.P64_image_loaded # 0 /\ before.P64_dirty # 0
              trace == last'.trace
          IN  /\ Occurrences(trace, "write_p64_image")
                     = IF p64 THEN 1 ELSE 0
              /\ Occurrences(trace, "gcr_data_writeback")
                     = IF p64 THEN 0 ELSE 1
              /\ Occurrences(trace, "free_tracks") = 1
              /\ Position(trace, "write_p64_image")
                     < Position(trace, "free_tracks")
              /\ Position(trace, "gcr_data_writeback")
                     < Position(trace, "free_tracks")
              /\ p64 => DriveOf(drives', last').P64_dirty = 0]_vars

C28_Witness ==
    /\ last.op = "detach"
    /\ last.ret = 0
    /\ Position(last.trace, "write_p64_image") = 1
    /\ Position(last.trace, "log_error") = 0
    /\ Position(last.trace, "free_tracks") = 2
    /\ DriveOf(drives, last).P64_dirty = 0

\* C29: a drive_image_attach that succeeds sets read_only to the flag of the
\* image, attach_clk to the clock of the unit and ask_extend_disk_image to
\* ask; it sets attach_detach_clk to the clock of the unit when detach_clk
\* was above 0 at the call and leaves it as it was otherwise.  A
\* drive_image_detach that succeeds sets detach_clk to the clock of the
\* unit.  attach_detach_clk is not written before a detach at a clock above
\* 0.
C29_ClockStamps ==
    [][/\ (last'.op = "attach" /\ last'.ret = 0) =>
              LET before == DriveOf(drives, last')
                  after == DriveOf(drives', last')
                  clk == diskunit_clk[last'.unit - 8]
              IN  /\ after.read_only = image_read_only(last'.image)
                  /\ after.attach_clk = clk
                  /\ after.ask_extend_disk_image = DRIVE_EXTEND_ASK
                  /\ after.attach_detach_clk
                         = IF before.detach_clk > 0 THEN clk
                           ELSE before.attach_detach_clk
       /\ (last'.op = "detach" /\ last'.ret = 0) =>
              DriveOf(drives', last').detach_clk
                  = diskunit_clk[last'.unit - 8]
       /\ \A dnr \in Dnrs, drv \in Drvs :
              drives'[dnr][drv].attach_detach_clk
                      # drives[dnr][drv].attach_detach_clk =>
                  drives[dnr][drv].detach_clk > 0]_vars

C29_Witness ==
    /\ last.op = "attach"
    /\ last.ret = 0
    /\ DriveOf(drives, last).detach_clk > 0
    /\ DriveOf(drives, last).attach_detach_clk = MaxClk
    /\ DriveOf(drives, last).attach_clk = MaxClk
    /\ DriveOf(drives, last).read_only = 1

\* C30: an image descriptor refers to the GCR and P64 buffers of a drive
\* only while it is attached to that drive: after a successful attach both
\* references are the buffers of the drive, and after a detach or an attach
\* whose read failed the descriptor has neither.
C30_RefsOnlyWhileAttached ==
    /\ (last.op = "attach" /\ last.ret = 0) =>
           image_refs[last.image]
               = [gcr |-> <<last.unit - 8, last.drv>>,
                  p64 |-> <<last.unit - 8, last.drv>>]
    /\ \A image \in ImageIds :
           /\ image_refs[image].gcr # <<>> =>
                  drives[image_refs[image].gcr[1]][image_refs[image].gcr[2]]
                      .image = image
           /\ image_refs[image].p64 # <<>> =>
                  drives[image_refs[image].p64[1]][image_refs[image].p64[2]]
                      .image = image

\* The drive as a successful drive_image_detach leaves it, whatever the
\* clocks: no image, no loaded flag, no write protection, no track buffer.
Detached(drive) ==
    /\ drive.image = NULL
    /\ drive.GCR_image_loaded = 0
    /\ drive.P64_image_loaded = 0
    /\ drive.read_only = 0
    /\ NoTrackBuffer(drive)

\* C31: a drive_image_detach with a unit in range on a drive that holds no
\* image returns 0 whatever the format of the image passed, leaves the drive
\* without image, loaded flag or track buffer and sets detach_clk to the
\* clock of the unit; a detach that follows a successful detach of the same
\* drive returns 0 as well and changes nothing but detach_clk.
C31_DetachOfEmptyDrive ==
    [][(/\ last'.op = "detach"
        /\ ValidUnit(last'.unit)
        /\ DriveOf(drives, last').image = NULL) =>
          LET before == DriveOf(drives, last')
              after == DriveOf(drives', last')
              dnr == last'.unit - 8
              clk == diskunit_clk[dnr]
          IN  /\ last'.ret = 0
              /\ after.image = NULL
              /\ after.GCR_image_loaded = 0
              /\ after.P64_image_loaded = 0
              /\ NoTrackBuffer(after)
              /\ after.detach_clk = clk
              /\ Detached(before) =>
                     drives' = [drives EXCEPT
                                   ![dnr][last'.drv].detach_clk = clk]
              /\ (/\ last.op = "detach"
                  /\ last.ret = 0
                  /\ last.unit = last'.unit
                  /\ last.drv = last'.drv) => drives' = drives]_vars

C31_Witness ==
    /\ last.op = "detach"
    /\ last.ret = 0
    /\ last.format = "D81"
    /\ DriveOf(drives, last).detach_clk = MaxClk
    /\ DriveOf(drives, last).attach_clk = 0
    /\ DriveOf(drives, last).ask_extend_disk_image = DRIVE_EXTEND_ASK

\* C35: a drive_image_detach on a drive that holds an image other than the
\* one passed tests the format of the image passed and nothing else of it:
\* it fails exactly when that format is none of the known ones, and
\* otherwise it takes the write-back the flags of the drive call for, frees
\* the track buffers of the drive and clears drive.image, with the result
\* every other image of a known format would have given.
C35_DetachTearsDownHeldImage ==
    [][(/\ last'.op = "detach"
        /\ ValidUnit(last'.unit)
        /\ DriveOf(drives, last').image # NULL
        /\ DriveOf(drives, last').image # last'.image) =>
          LET before == DriveOf(drives, last')
              after == DriveOf(drives', last')
              p64 == before.P64_image_loaded # 0 /\ before.P64_dirty # 0
          IN  /\ last'.ret = IF DetachKnown(last'.format) THEN 0 ELSE -1
              /\ last'.ret = 0 =>
                     /\ Detached(after)
                     /\ (Position(last'.trace, "write_p64_image") > 0) <=> p64
                     /\ Position(last'.trace, "free_tracks") > 0
                     /\ \A other \in ImageIds :
                            DetachKnown(image_type(other)) =>
                                \E write_ok \in BOOLEAN :
                                    LET r == drive_image_detach(other,
                                                 last'.unit, last'.drv,
                                                 write_ok)
                                    IN  /\ r.ret = 0
                                        /\ r.drives = drives'
                                        /\ r.trace = last'.trace]_vars

\* A detach that passed the D64 descriptor, which was never attached, and
\* wrote P64 flux data back.
C35_Witness ==
    /\ last.op = "detach"
    /\ last.ret = 0
    /\ last.format = "D64"
    /\ image_refs[last.image] = NoRefs
    /\ Position(last.trace, "write_p64_image") > 0
    /\ Detached(DriveOf(drives, last))

\* C36: for every image format drive_image_type_to_drive_type maps to a
\* drive model, drive_check_image_format returns 0 at a unit configured as
\* that model.
C36_SuggestedModelAccepts ==
    (/\ last.op = "check"
     /\ drive_image_type_to_drive_type(last.format) # "NONE"
     /\ unit_type[last.unit - 8]
            = drive_image_type_to_drive_type(last.format)) =>
        last.ret = 0

C36_Witness ==
    /\ last.op = "check"
    /\ last.format = "D4M"
    /\ drive_image_type_to_drive_type(last.format) = "4000"
    /\ unit_type[last.unit - 8] = "4000"
    /\ last.ret = 0

\* The calls that give the routines their module.
Openers == {"snapshot_module_create", "snapshot_module_open"}

\* The last snapshot call got its module.
GotModule ==
    \E i \in 1 .. Len(snap_call.trace) :
        snap_call.trace[i].call \in Openers /\ snap_call.trace[i].ret = 0

\* The last snapshot call came to the return behind its last step: nothing
\* before the close failed and no error was logged.
StraightPath ==
    /\ GotModule
    /\ \A i \in 1 .. Len(snap_call.trace) - 1 :
           /\ snap_call.trace[i].ret = 0
           /\ snap_call.trace[i].call # "log_error"

\* C38: vic_snapshot_write_module and vic_snapshot_read_module close the
\* module they created or opened exactly once, as the last thing before
\* they return, and close nothing when the create or open failed; when no
\* step failed the value returned is the result of the close, and -1
\* otherwise.
C38_ClosedExactlyOnce ==
    snap_call.op \in {"write", "read"} =>
        LET trace == snap_call.trace
        IN  /\ CountCalls(trace, "snapshot_module_close")
                   = IF GotModule THEN 1 ELSE 0
            /\ GotModule => trace[Len(trace)].call = "snapshot_module_close"
            /\ snap_call.ret
                   = IF StraightPath THEN trace[Len(trace)].ret ELSE -1

\* A read that restored everything and whose close failed.
C38_Witness ==
    /\ snap_call.op = "read"
    /\ StraightPath
    /\ CountCalls(snap_call.trace, "raster_force_repaint") = 1
    /\ snap_call.trace[Len(snap_call.trace)]
           = Call("snapshot_module_close", "", -1)
    /\ snap_call.ret = -1

\* The steps of a complete read behind the version gate, as <<call, kind>>:
\* the scalars and the colour RAM, each register byte followed by its
\* vic_store, the raster state and the repaint.
ReadSteps ==
    [i \in 1 .. 24 |-> <<"SMR", VicLayout(9)[i]>>]
    \o [i \in 1 .. 2 * NUM_VIC_REGS |->
            IF i % 2 = 1 THEN <<"SMR", "B">> ELSE <<"vic_store", "">>]
    \o << <<"raster_snapshot_read", "RASTER">>,
          <<"raster_force_repaint", "">> >>

\* The steps behind which the timing checks stand.
BeforeChecks == 24 + 2 * NUM_VIC_REGS

\* The bytes of value number i of the module.
ValueBytes(i) ==
    LET layout == VicLayout(9)
        from == LayoutBytes(SubSeq(layout, 1, i - 1))
    IN  SubSeq(module.data, from + 1, from + LayoutBytes(<<layout[i]>>))

\* The destinations of the first n values hold what the module has for
\* them; a member read twice holds the later value.
Overwritten(n) ==
    /\ \A i \in 1 .. n :
           \/ i > Len(ReadFields)
           \/ \E j \in i + 1 .. n :
                  j <= Len(ReadFields) /\ ReadFields[j][1] = ReadFields[i][1]
           \/ vic[ReadFields[i][1]] = SMR(ReadFields[i][2], ValueBytes(i))
    /\ n > Len(ReadFields) => mem_ram = ValueBytes(Len(ReadFields) + 1)
    /\ \A i \in Len(ReadFields) + 2 .. n :
           vic["regs"][i - Len(ReadFields) - 2] = ValueBytes(i)[1]

\* C37: vic_snapshot_read_module takes its steps in one order: the version
\* gate, the scalar members, the colour RAM, the 16 register bytes each
\* handed to vic_store, the two timing checks, the raster state, the
\* repaint, the close.  The first step that fails is followed by the close
\* alone and a return of -1, with the destination of every value read
\* before it holding the value of the module; raster_force_repaint is
\* called only when every step before it succeeded.
C37_ReadStepOrder ==
    Opened =>
        LET trace == snap_call.trace
            body == SubSeq(trace, 3, Len(trace) - 1)
            older == \/ module.major < SNAP_MAJOR
                     \/ module.major = SNAP_MAJOR /\ module.minor < SNAP_MINOR
        IN  /\ trace[Len(trace)].call = "snapshot_module_close"
            /\ older => body = <<Call("log_error", "", 0)>>
            /\ ~older =>
                   \E k \in 0 .. Len(ReadSteps) :
                       /\ Len(body) >= k
                       /\ \A i \in 1 .. k :
                              body[i] = Call(ReadSteps[i][1],
                                             ReadSteps[i][2], 0)
                       /\ \/ /\ k = Len(ReadSteps)
                             /\ Len(body) = k
                             /\ snap_call.ret = trace[Len(trace)].ret
                          \/ /\ k < Len(ReadSteps)
                             /\ Len(body) = k + 1
                             /\ snap_call.ret = -1
                             /\ \/ /\ ReadSteps[k + 1][1] \in Readers
                                   /\ body[k + 1]
                                          = Call(ReadSteps[k + 1][1],
                                                 ReadSteps[k + 1][2], -1)
                                \/ /\ k = BeforeChecks
                                   /\ body[k + 1] = Call("log_error", "", 0)
                             /\ Overwritten(Len(Kinds(trace, {"SMR"})))
            /\ CountCalls(trace, "raster_force_repaint") > 0 =>
                   /\ \A i \in 1 .. Len(trace) - 1 : trace[i].ret = 0
                   /\ CountCalls(trace, "log_error") = 0

\* A read that failed at a register byte: the colour RAM and the registers
\* before it are those of the module, and the machine is left in a state
\* it was in at no time.
C37_Witness ==
    /\ Opened
    /\ snap_call.ret = -1
    /\ Len(Kinds(snap_call.trace, {"SMR"})) = Len(ReadFields) + 3
    /\ Overwritten(Len(ReadFields) + 3)
    /\ module.from_writer
    /\ mem_ram = module.mem_ram
    /\ ~Consistent

\* The call of machine_play_psid the last button made, if it made one.
Played ==
    {vsid_call.trace[i].arg :
        i \in {j \in 1 .. Len(vsid_call.trace) :
                  vsid_call.trace[j].call = "machine_play_psid"}}

\* C33 as amended: with a file of tune_count >= 1 tunes and tune_current in
\* 1..tune_count or stopped (-1), 'next subtune' selects tune_current + 1,
\* or the first tune after the last and when stopped; 'previous subtune'
\* selects tune_current - 1, or the last tune before the first and when
\* stopped.  Both leave tune_current in 1..tune_count and play it.  Next
\* followed by previous restores tune_current when a tune was current.
C33_SubtuneWrap ==
    [][LET count == vsid_state.tune_count
           cur == vsid_state.tune_current
           new == vsid_state'.tune_current
       IN  (count >= 1 /\ cur \in (1 .. count) \cup {-1}) =>
              /\ vsid_call'.op = "next" =>
                     new = IF cur \in 1 .. count - 1 THEN cur + 1 ELSE 1
              /\ vsid_call'.op = "prev" =>
                     new = IF cur \in 2 .. count THEN cur - 1 ELSE count
              /\ vsid_call'.op \in {"next", "prev"} =>
                     /\ new \in 1 .. count
                     /\ vsid_state'.tune_count = count
                     /\ Played' = {new}
              /\ (/\ vsid_call.op = "next"
                  /\ vsid_call.found >= 1
                  /\ vsid_call'.op = "prev") => new = vsid_call.found]_vars

\* Previous pressed on the first tune of the largest file.
C33_Witness ==
    /\ vsid_call.op = "prev"
    /\ vsid_call.found = 1
    /\ vsid_state.tune_count = MaxTunes
    /\ vsid_state.tune_current = MaxTunes
    /\ Played = {MaxTunes}

\* C33 as claimed: next followed by previous restores tune_current from
\* every state of the premise, the stopped one included.
C33_SubtuneWrapClaimed ==
    [][LET count == vsid_state.tune_count
           cur == vsid_state.tune_current
           new == vsid_state'.tune_current
       IN  (count >= 1 /\ cur \in (1 .. count) \cup {-1}) =>
              /\ vsid_call'.op \in {"next", "prev"} => new \in 1 .. count
              /\ (vsid_call.op = "next" /\ vsid_call'.op = "prev") =>
                     new = vsid_call.found]_vars

\* C34: play pressed while playback is stopped restarts the tune that was
\* playing when stop was pressed; play pressed while a tune is current
\* leaves tune_current as it is and sets the resource Speed to 100.
C34_PlayResumes ==
    [][vsid_call'.op = "play" =>
          /\ (vsid_call.op = "stop" /\ vsid_call.found >= 1) =>
                 /\ vsid_state'.tune_current = vsid_call.found
                 /\ Played' = {vsid_call.found}
          /\ vsid_state.tune_current >= 1 =>
                 /\ vsid_state'.tune_current = vsid_state.tune_current
                 /\ Speed' = 100]_vars

\* The places of the user callback in a record of calls.
Notified(trace) ==
    {i \in 1 .. Len(trace) : trace[i].call = "callback"}

\* The last call handed a name to a browser: a file chosen in its dialog,
\* or the argument of vice_gtk3_resource_browser_set.
NameGiven ==
    \/ ui_call.op \in {"browse_chosen", "save_chosen"}
           /\ ui_call.arg # NullString
    \/ ui_call.op = "browser_set"

====
